---- MODULE Spec2Model ----
(***************************************************************************)
(* Model of Cantera's multicomponent transport manager (MultiTransport)     *)
(* and of the lazy, updater-driven cache it keeps on top of a thermodynamic *)
(* phase.                                                                   *)
(*                                                                          *)
(* Numbers.  A doublereal is modelled exactly, as a rational <<n, d>> with  *)
(* d > 0 in lowest terms (rounding is not modelled).  Temperatures are the  *)
(* powers of four 4^1 .. 4^MaxT, so that sqrt(T) is an integer and the      *)
(* logarithm (taken to base 4) is an integer as well; exp is taken to base  *)
(* 2 on integer arguments.  Mole fractions are counted in units of 1/XOne.  *)
(* Quantities whose numerical value no property looks at are kept as terms  *)
(* that record the function applied and the arguments it was applied to.    *)
(***************************************************************************)
EXTENDS Integers, Sequences, FiniteSets, TLC

\* ------------------------------------------------------------ bounds
\* number of species of the phase
NSP == 2
\* temperatures of the phase: 4^1 .. 4^MaxT
MaxT == 2
\* mole fractions are multiples of 1/XOne
XOne == 2
\* spatial directions a flux query may ask for: 1 .. MaxDim
MaxDim == 2

\* ------------------------------------------------------------ constants
\* The floor of the cached mole fractions, in units of 1/XOne (the source
\* value is 1.e-20; the grid keeps one value, 1, strictly between 0 and it).
MIN_X == 1

Species == 0 .. (NSP - 1)

\* ------------------------------------------------------------ rationals
RECURSIVE Gcd(_, _)
Gcd(a, b) == IF b = 0 THEN a ELSE Gcd(b, a % b)

Abs(a) == IF a < 0 THEN -a ELSE a

\* n/d in lowest terms with a positive denominator (d # 0)
Rat(n, d) ==
    LET g == Gcd(Abs(n), Abs(d))
        s == IF d < 0 THEN -1 ELSE 1
    IN  <<(s * n) \div g, (s * d) \div g>>

RInt(n) == <<n, 1>>
RZero == <<0, 1>>
RNeg(a) == <<-a[1], a[2]>>
RAdd(a, b) ==
    LET g == Gcd(a[2], b[2])
    IN  Rat(a[1] * (b[2] \div g) + b[1] * (a[2] \div g), (a[2] \div g) * b[2])
RSub(a, b) == RAdd(a, RNeg(b))
RMul(a, b) ==
    LET g1 == Gcd(Abs(a[1]), b[2])
        g2 == Gcd(Abs(b[1]), a[2])
        h1 == IF g1 = 0 THEN 1 ELSE g1
        h2 == IF g2 = 0 THEN 1 ELSE g2
    IN  Rat((a[1] \div h1) * (b[1] \div h2), (a[2] \div h2) * (b[2] \div h1))
\* a/b for b # 0
RDiv(a, b) == RMul(a, Rat(b[2], b[1]))
RIsZero(a) == a[1] = 0

RECURSIVE RSum(_, _)
\* sum of f[i] over the set S of indices
RSum(f, S) ==
    IF S = {} THEN RZero
    ELSE LET i == CHOOSE j \in S : \A k \in S : j <= k
         IN  RAdd(f[i], RSum(f, S \ {i}))

RECURSIVE StoredOn(_, _)
StoredOn(f, S) ==
    LET k == CHOOSE j \in S : TRUE
    IN  IF S = {k} THEN k :> f[k] ELSE (k :> f[k]) @@ StoredOn(f, S \ {k})

\* the array f with every entry computed once, when the array is built
Stored(f) == IF DOMAIN f = {} THEN f ELSE StoredOn(f, DOMAIN f)

RECURSIVE Pow(_, _)
Pow(b, e) == IF e <= 0 THEN 1 ELSE b * Pow(b, e - 1)

\* libm on the temperature grid: T = 4^i
LogOf(t) == CHOOSE i \in 0 .. (MaxT + 1) : Pow(4, i) = t
SqrtOf(t) == Pow(2, LogOf(t))
ExpOf(z) == Pow(2, z)

Temps == {Pow(4, i) : i \in 1 .. MaxT}

\* ------------------------------------------------------------ model inputs
\* (TransportParams tr and the phase's constant attributes, fixed at init)

\* thermo->molecularWeights()
MolecularWeight(k) == k + 1

\* index of the pair (i, j), i <= j, in the packed upper triangle: the value
\* of the counter ic of _update_diff_T when it reaches (i, j)
PairIndex(i, j) == i * NSP - ((i * (i - 1)) \div 2) + (j - i)

\* tr.visccoeffs[k]: coefficients of the viscosity fit of species k
ViscCoeffs(k) == <<k, 1, 0, 0, 0>>

\* tr.diffcoeffs[ic]: coefficients of the fit of the pair with index ic
DiffCoeffs(ic) == <<ic + 1, 1, 0, 0, 0>>

\* tr.poly[i][j]: the collision-integral fit the pair (i, j) uses
PolyIndex(i, j) == (i + j) % 2

\* tr.omega22_poly, astar_poly, bstar_poly, cstar_poly: fit coefficients
Om22Poly(ip) == <<2 + ip, 1, 0, 0, 0, 0, 0, 0>>
AstarPoly(ip) == <<1 + ip, 1, 0, 0, 0, 0, 0, 0>>
BstarPoly(ip) == <<1, 1 + ip, 0, 0, 0, 0, 0, 0>>
CstarPoly(ip) == <<3, ip, 1, 0, 0, 0, 0, 0>>

\* log(tr.epsilon(i,j)/Boltzmann), to base 4; tr.epsilon need not be stored
\* symmetrically
LogEpsilonOverK(i, j) == IF i <= j THEN 0 ELSE 1

\* the two values of tr.mode
Modes == {"CK_Mode", "cantera"}

\* ------------------------------------------------------------ fits
\* dot4, dot5: dot product of the first 4 (5) entries
dot4(x, y) == x[1] * y[1] + x[2] * y[2] + x[3] * y[3] + x[4] * y[4]
dot5(x, y) == dot4(x, y) + x[5] * y[5]

\* poly6, poly8: value at z of the polynomial with coefficients c[1] + c[2] z + ...
poly6(z, c) ==
    c[1] + z * (c[2] + z * (c[3] + z * (c[4] + z * (c[5] + z * c[6]))))
poly8(z, c) ==
    c[1] + z * (c[2] + z * (c[3] + z * (c[4] + z * (c[5] + z * (c[6] + z * (c[7] + z * c[8]))))))

fmaxx(x, y) == IF x > y THEN x ELSE y

\* ------------------------------------------------------------ state
\* thermo: the phase.  temperature and moleFractions are its state;
\*   up_T, up_C are the up-to-date marks of the updaters installed on it.
\* mt:     the MultiTransport object (fields under their source names).
\* ghost:  bookkeeping of the run: how often each routine ran since the last
\*   change that makes it due, what the query in progress did and threw, and
\*   the last matrix getBinaryDiffCoeffs wrote.
\* ret:    what the last operation handed back to its caller.
\* flow:   the StFlow object's transport fields (under their source names).
VARIABLES thermo, mt, ghost, ret, flow, stf

vars == <<thermo, mt, ghost, ret, flow, stf>>

\* the updaters, in the order init installs them
Updaters_T == {"transport_T", "spvisc_T", "visc_T", "diff_T", "thermal_T"}

\* the compositions the phase can take: mole fractions that sum to one
Compositions == {x \in [Species -> 0 .. XOne] : RSum([k \in Species |-> RInt(x[k])], Species) = RInt(XOne)}

\* the routines whose runs the ghost counts
Routines == {"_update_transport_T", "_update_species_visc_T", "_update_visc_T",
             "_update_diff_T", "_update_thermal_T", "_update_transport_C"}

\* The routines below map a world w = [thermo, mt, ghost] to the world they
\* leave behind.

\* ghost: routine r runs (the count saturates at 2)
Note(w, r) ==
    [w EXCEPT !.ghost.runs[r] = IF @ < 2 THEN @ + 1 ELSE @]

\* PropertyUpdater::update(n) on the phase's temperature updaters: run the
\* updater unless it is up to date, then mark it up to date.  ran is the
\* world the updater's update() leaves.
update_T(w, n, ran) ==
    IF w.thermo.up_T[n] THEN w ELSE [ran EXCEPT !.thermo.up_T[n] = TRUE]

\* the same for the composition updaters
update_C(w, ran) ==
    IF w.thermo.up_C THEN w ELSE [ran EXCEPT !.thermo.up_C = TRUE]

\* ------------------------------------------------------------ temperature tier
\* a faulty routine: m_visc_ok is not cleared
UpdateTransportTKeepsVisc(w0) ==
    LET w == Note(w0, "_update_transport_T")
        t == w.thermo.temperature
        logt == LogOf(t)
    IN  [w EXCEPT !.mt = [@ EXCEPT
            !.m_temp = t,
            !.m_logt = logt,
            !.m_kbt = t,
            !.m_sqrt_t = SqrtOf(t),
            !.m_t32 = t * SqrtOf(t),
            !.m_sqrt_kbt = SqrtOf(t),
            !.m_polytempvec = <<1, logt, logt * logt, logt * logt * logt,
                                logt * logt * logt * logt>>,
            !.m_spvisc_ok = FALSE,
            !.m_diff_ok = FALSE,
            !.m_abc_ok = FALSE,
            !.m_lmatrix_soln_ok = FALSE,
            !.m_l0000_ok = FALSE]]

_update_transport_T(w0) ==
    LET w == Note(w0, "_update_transport_T")
        t == w.thermo.temperature
        logt == LogOf(t)
    IN  [w EXCEPT !.mt = [@ EXCEPT
            !.m_temp = t,
            !.m_logt = logt,
            !.m_kbt = t,
            !.m_sqrt_t = SqrtOf(t),
            !.m_t32 = t * SqrtOf(t),
            !.m_sqrt_kbt = SqrtOf(t),
            !.m_polytempvec = <<1, logt, logt * logt, logt * logt * logt,
                                logt * logt * logt * logt>>,
            !.m_visc_ok = FALSE,
            !.m_spvisc_ok = FALSE,
            !.m_diff_ok = FALSE,
            !.m_abc_ok = FALSE,
            !.m_lmatrix_soln_ok = FALSE,
            !.m_l0000_ok = FALSE]]

updateTransport_T(w) == update_T(w, "transport_T", _update_transport_T(w))

\* the binary diffusion coefficient of the pair with index ic at unit
\* pressure, from its fit
DiffFit(m, ic) ==
    IF m.m_mode = "CK_Mode"
    THEN RInt(ExpOf(dot4(m.m_polytempvec, DiffCoeffs(ic))))
    ELSE RInt(m.m_temp * m.m_sqrt_t * dot5(m.m_polytempvec, DiffCoeffs(ic)))

\* a faulty fill: the entry below the diagonal is not the mirrored one
BinaryDiffFillUnmirrored(m) ==
    Stored([i \in Species, j \in Species |->
        IF i <= j THEN DiffFit(m, PairIndex(i, j))
        ELSE RMul(RInt(2), DiffFit(m, PairIndex(j, i)))])

\* the loops of _update_diff_T: every pair i <= j is evaluated and mirrored
BinaryDiffFill(m) ==
    Stored([i \in Species, j \in Species |->
        IF i <= j THEN DiffFit(m, PairIndex(i, j)) ELSE DiffFit(m, PairIndex(j, i))])

_update_diff_T(w0) ==
    LET fill(w) == [w EXCEPT !.mt.m_bdiff = BinaryDiffFill(w.mt),
                             !.mt.m_diff_ok = TRUE]
    IN  fill(updateTransport_T(Note(w0, "_update_diff_T")))

updateDiff_T(w) == update_T(w, "diff_T", _update_diff_T(w))

\* the pure-species viscosity of species k, from its fit
ViscFit(m, k) ==
    IF m.m_mode = "CK_Mode"
    THEN RInt(ExpOf(dot4(m.m_polytempvec, ViscCoeffs(k))))
    ELSE RInt(m.m_sqrt_t * dot5(m.m_polytempvec, ViscCoeffs(k)))

_update_species_visc_T(w0) ==
    LET fill(w) == [w EXCEPT !.mt.m_visc = Stored([k \in Species |-> ViscFit(w.mt, k)]),
                             !.mt.m_spvisc_ok = TRUE]
    IN  fill(updateTransport_T(Note(w0, "_update_species_visc_T")))

updateSpeciesViscosities_T(w) ==
    update_T(w, "spvisc_T", _update_species_visc_T(w))

\* an entry of the Wilke weights, as the term the code evaluates: for k >= j
\* the first assignment, for k < j the second one (which divides the entry
\* of the transposed place); the diagonal is assigned twice
PhiTerm(m, k, j) ==
    LET hi == IF k >= j THEN k ELSE j
        lo == IF k >= j THEN j ELSE k
        vratiokj == RDiv(m.m_visc[hi], m.m_visc[lo])
        wratiojk == Rat(MolecularWeight(lo), MolecularWeight(hi))
    IN  [f |-> IF k > j THEN "phi" ELSE "phi/(vratio*wratio)",
         vratio |-> vratiokj, wratio |-> wratiojk]

\* a faulty _update_visc_T: it calls the species-viscosity routine itself
\* instead of asking the updater
UpdateViscCallsRoutine(w0) ==
    LET fill(w) == [w EXCEPT !.mt.m_phi = Stored([k \in Species, j \in Species |-> PhiTerm(w.mt, k, j)]),
                             !.mt.m_visc_ok = TRUE]
    IN  fill(_update_species_visc_T(Note(w0, "_update_visc_T")))

_update_visc_T(w0) ==
    LET fill(w) == [w EXCEPT !.mt.m_phi = Stored([k \in Species, j \in Species |-> PhiTerm(w.mt, k, j)]),
                             !.mt.m_visc_ok = TRUE]
    IN  fill(updateSpeciesViscosities_T(Note(w0, "_update_visc_T")))

updateViscosity_T(w) == update_T(w, "visc_T", _update_visc_T(w))

\* IdealGasPhase::cp_R(): reference heat capacities over R at the phase's
\* temperature; species 0 is a structureless atom (cp/R = 5/2)
cp_R(th, k) == RAdd(Rat(5, 2), RInt(k * LogOf(th.temperature)))

\* one collision-integral fit for the pair i <= j, by mode
StarFit(m, i, j, table) ==
    LET z == m.m_logt - m.m_log_eps_k[i, j]
    IN  IF m.m_mode = "CK_Mode" THEN poly6(z, table) ELSE poly8(z, table)

\* the fit coefficients of one of the four collision-integral tables
StarTable(name, ip) ==
    CASE name = "om22" -> Om22Poly(ip)
      [] name = "astar" -> AstarPoly(ip)
      [] name = "bstar" -> BstarPoly(ip)
      [] name = "cstar" -> CstarPoly(ip)

\* the loop over i <= j of _update_thermal_T with its mirror assignments
StarFill(m, name) ==
    Stored([i \in Species, j \in Species |->
        IF i <= j THEN StarFit(m, i, j, StarTable(name, PolyIndex(i, j)))
                  ELSE StarFit(m, j, i, StarTable(name, PolyIndex(j, i)))])

\* the value _update_thermal_T stores on the diagonal of m_bdiff:
\* 1.2 R T visc[k] A*(k,k) / mw[k]   (R = 1)
SelfDiffusion(m, k) ==
    RMul(Rat(6 * m.m_temp, 5),
         RDiv(RMul(m.m_visc[k], RInt(m.m_astar[k, k])), RInt(MolecularWeight(k))))

\* a faulty routine: it asks for the mixture-viscosity update where the
\* species-viscosity update is meant
UpdateThermalThroughViscosity(w0) ==
    LET fits(w) ==
            [w EXCEPT !.mt = [@ EXCEPT
                !.m_om22 = StarFill(w.mt, "om22"),
                !.m_astar = StarFill(w.mt, "astar"),
                !.m_bstar = StarFill(w.mt, "bstar"),
                !.m_cstar = StarFill(w.mt, "cstar"),
                !.m_abc_ok = TRUE,
                !.m_rotrelax = Stored([k \in Species |->
                    [f |-> "rotrelax", k |-> k, kbt |-> w.mt.m_kbt, sqrt_t |-> w.mt.m_sqrt_t]])]]
        diagonal(w) ==
            [w EXCEPT !.mt = [@ EXCEPT
                !.m_bdiff = Stored([i \in Species, j \in Species |->
                    IF i = j THEN SelfDiffusion(w.mt, i) ELSE w.mt.m_bdiff[i, j]]),
                !.m_cinternal = Stored([k \in Species |-> RSub(cp_R(w.thermo, k), Rat(5, 2))])]]
    IN  diagonal(fits(updateDiff_T(updateViscosity_T(Note(w0, "_update_thermal_T")))))

\* a faulty _update_thermal_T: it does not bring the binary diffusion
\* coefficients up to date before it uses them
UpdateThermalSkipsDiff(w0) ==
    LET fits(w) ==
            [w EXCEPT !.mt = [@ EXCEPT
                !.m_om22 = StarFill(w.mt, "om22"),
                !.m_astar = StarFill(w.mt, "astar"),
                !.m_bstar = StarFill(w.mt, "bstar"),
                !.m_cstar = StarFill(w.mt, "cstar"),
                !.m_abc_ok = TRUE,
                !.m_rotrelax = Stored([k \in Species |->
                    [f |-> "rotrelax", k |-> k, kbt |-> w.mt.m_kbt, sqrt_t |-> w.mt.m_sqrt_t]])]]
        diagonal(w) ==
            [w EXCEPT !.mt = [@ EXCEPT
                !.m_bdiff = Stored([i \in Species, j \in Species |->
                    IF i = j THEN SelfDiffusion(w.mt, i) ELSE w.mt.m_bdiff[i, j]]),
                !.m_cinternal = Stored([k \in Species |-> RSub(cp_R(w.thermo, k), Rat(5, 2))])]]
    IN  diagonal(fits(updateSpeciesViscosities_T(Note(w0, "_update_thermal_T"))))

_update_thermal_T(w0) ==
    LET fits(w) ==
            [w EXCEPT !.mt = [@ EXCEPT
                !.m_om22 = StarFill(w.mt, "om22"),
                !.m_astar = StarFill(w.mt, "astar"),
                !.m_bstar = StarFill(w.mt, "bstar"),
                !.m_cstar = StarFill(w.mt, "cstar"),
                !.m_abc_ok = TRUE,
                !.m_rotrelax = Stored([k \in Species |->
                    [f |-> "rotrelax", k |-> k, kbt |-> w.mt.m_kbt, sqrt_t |-> w.mt.m_sqrt_t]])]]
        diagonal(w) ==
            [w EXCEPT !.mt = [@ EXCEPT
                !.m_bdiff = Stored([i \in Species, j \in Species |->
                    IF i = j THEN SelfDiffusion(w.mt, i) ELSE w.mt.m_bdiff[i, j]]),
                !.m_cinternal = Stored([k \in Species |-> RSub(cp_R(w.thermo, k), Rat(5, 2))])]]
    IN  diagonal(fits(updateDiff_T(updateSpeciesViscosities_T(Note(w0, "_update_thermal_T")))))

updateThermal_T(w) == update_T(w, "thermal_T", _update_thermal_T(w))

\* ------------------------------------------------------------ composition tier
\* a faulty copy of the mole fractions: no floor
CopyMoleFractions(x) == Stored([k \in Species |-> x[k]])

\* the loop of _update_transport_C over the phase's mole fractions x
ClampMoleFractions(x) == Stored([k \in Species |-> fmaxx(MIN_X, x[k])])

\* a faulty _update_transport_C: it also marks the mixture viscosity stale
UpdateTransportCClearsVisc(w0) ==
    LET copy(w) == [w EXCEPT !.mt.m_l0000_ok = FALSE,
                             !.mt.m_lmatrix_soln_ok = FALSE,
                             !.mt.m_visc_ok = FALSE,
                             !.mt.m_molefracs = ClampMoleFractions(w.thermo.moleFractions)]
    IN  copy(Note(w0, "_update_transport_C"))

_update_transport_C(w0) ==
    LET copy(w) == [w EXCEPT !.mt.m_l0000_ok = FALSE,
                             !.mt.m_lmatrix_soln_ok = FALSE,
                             !.mt.m_molefracs = ClampMoleFractions(w.thermo.moleFractions)]
    IN  copy(Note(w0, "_update_transport_C"))

updateTransport_C(w) == update_C(w, _update_transport_C(w))

\* ------------------------------------------------------------ L-matrix
N3 == 0 .. (3 * NSP - 1)

\* whether species k has internal energy modes
hasInternalModes(m, k) == m.m_cinternal[k][1] > 0

\* a faulty right-hand side: the third block keeps the mole fraction of a
\* species without internal modes
RightHandSideKeepsThirdBlock(m) ==
    Stored([k \in N3 |->
        IF k < NSP THEN 0
        ELSE IF k < 2 * NSP THEN m.m_molefracs[k - NSP]
        ELSE m.m_molefracs[k - 2 * NSP]])

\* the right-hand side solveLMatrixEquation builds
RightHandSide(m) ==
    Stored([k \in N3 |->
        IF k < NSP THEN 0
        ELSE IF k < 2 * NSP THEN m.m_molefracs[k - NSP]
        ELSE IF hasInternalModes(m, k - 2 * NSP) THEN m.m_molefracs[k - 2 * NSP]
        ELSE 0])

\* a block of the L matrix as eval_L... leaves it: a function of the
\* temperature-tier data and of the mole fractions handed in
EvalBlock(m) == [form |-> "eval", temp |-> m.m_temp, x |-> m.m_molefracs]

\* solveLMatrixEquation.  ext gives what the solvers report: ext.info is the
\* value solve() returns, ext.conv whether gmres met its tolerance.  A throw
\* is recorded in ghost.thrown.
solveLMatrixEquation(w0, ext) ==
    LET \* the right-hand side and the nine blocks
        assembled(w) ==
            [w EXCEPT
                !.ghost.assembled = TRUE,
                !.ghost.solves = IF @ < 2 THEN @ + 1 ELSE @,
                !.mt.m_b = RightHandSide(w.mt),
                !.mt.m_Lmatrix = [l0000 |-> EvalBlock(w.mt), rest |-> EvalBlock(w.mt)]]
        \* solve() overwrites the matrix with its LU factors
        factors(L) == [l0000 |-> [L.l0000 EXCEPT !.form = "LU"],
                       rest |-> [L.rest EXCEPT !.form = "LU"]]
        solved(w) ==
            IF w.mt.m_gmres
            THEN [w EXCEPT
                    !.mt.m_a = [form |-> "gmres", conv |-> ext.conv, b |-> w.mt.m_b,
                                temp |-> w.mt.m_temp, guess |-> w.mt.m_a.form],
                    !.mt.m_lmatrix_soln_ok = TRUE,
                    !.mt.m_l0000_ok = TRUE]
            ELSE IF ext.info # 0
            THEN [w EXCEPT
                    !.ghost.thrown = [proc |-> "MultiTransport::solveLMatrixEquation",
                                      msg |-> "error in solving L matrix."],
                    !.mt.m_Lmatrix = factors(w.mt.m_Lmatrix),
                    !.mt.m_a = [form |-> "failed", conv |-> FALSE, b |-> w.mt.m_b,
                                temp |-> w.mt.m_temp, guess |-> "b"]]
            ELSE [w EXCEPT
                    !.mt.m_Lmatrix = factors(w.mt.m_Lmatrix),
                    !.mt.m_a = [form |-> "LU", conv |-> TRUE, b |-> w.mt.m_b,
                                temp |-> w.mt.m_temp, guess |-> "b"],
                    !.mt.m_lmatrix_soln_ok = TRUE,
                    !.mt.m_l0000_ok = FALSE]
    IN  solved(assembled(updateTransport_C(updateThermal_T(w0))))

\* ------------------------------------------------------------ the phase
\* thermo->massFractions(): Y_k = x_k M_k / sum_j x_j M_j
massFractions(th) ==
    LET tot == RSum(Stored([j \in Species |-> RInt(th.moleFractions[j] * MolecularWeight(j))]), Species)
    IN  Stored([k \in Species |-> RDiv(RInt(th.moleFractions[k] * MolecularWeight(k)), tot)])

\* thermo->meanMolecularWeight()
meanMolecularWeight(th) ==
    RDiv(RSum(Stored([j \in Species |-> RInt(th.moleFractions[j] * MolecularWeight(j))]), Species),
         RInt(XOne))

\* thermo->molarDensity(): the phase is kept at one molar density
molarDensity(th) == RInt(1)

\* thermo->density()
density(th) == RMul(molarDensity(th), meanMolecularWeight(th))

\* pressure_ig(): molarDensity * GasConstant * temperature   (R = 1)
pressure_ig(th) == RMul(molarDensity(th), RInt(th.temperature))

\* a cached mole fraction as a number
MoleFrac(m, k) == Rat(m.m_molefracs[k], XOne)

\* ------------------------------------------------------------ linear algebra
\* LAPACK's dgetrf and dgetrs are modelled by what they compute in exact
\* arithmetic: the factorization fails exactly when the matrix is singular,
\* and the back-substitution returns the solution of the system.  The
\* solution is found by Cramer's rule on the system with every row multiplied
\* by a positive number that makes its entries integers, which changes
\* neither the solution nor whether the matrix is singular.
Lcm(a, b) == (a \div Gcd(a, b)) * b

RECURSIVE RowDenominator(_, _, _)
\* the least common denominator of the entries 0 .. j of row i of A
RowDenominator(A, i, j) ==
    IF j < 0 THEN 1 ELSE Lcm(A[i, j][2], RowDenominator(A, i, j - 1))

RECURSIVE RowGcd(_, _, _)
\* the greatest common divisor of the entries 0 .. j of row i of Z
RowGcd(Z, i, j) ==
    IF j < 0 THEN 0 ELSE Gcd(Abs(Z[i, j]), RowGcd(Z, i, j - 1))

\* the rows of the system A v = g as integers: columns 0 .. NSP - 1 are the
\* matrix, column NSP is the right-hand side
IntegerRows(A, g) ==
    LET L == Stored([i \in Species |-> Lcm(g[i][2], RowDenominator(A, i, NSP - 1))])
        Z == Stored([i \in Species, j \in 0 .. NSP |->
                IF j < NSP THEN A[i, j][1] * (L[i] \div A[i, j][2])
                ELSE g[i][1] * (L[i] \div g[i][2])])
        G == Stored([i \in Species |->
                IF RowGcd(Z, i, NSP) = 0 THEN 1 ELSE RowGcd(Z, i, NSP)])
    IN  Stored([i \in Species, j \in 0 .. NSP |-> Z[i, j] \div G[i]])

RemoveAt(sq, p) == [q \in 1 .. (Len(sq) - 1) |-> IF q < p THEN sq[q] ELSE sq[q + 1]]

RECURSIVE Det(_, _, _)
\* determinant of the rows `rows` and columns `cols` (sequences of indices
\* of equal length) of the integer matrix Z, by expansion along the first row
Det(Z, rows, cols) ==
    IF Len(rows) = 0 THEN 1
    ELSE LET r == Head(rows)
             minor == Stored([p \in 1 .. Len(cols) |->
                        Z[r, cols[p]] * Det(Z, Tail(rows), RemoveAt(cols, p))])
             alternating[p \in 0 .. Len(cols)] ==
                 IF p = 0 THEN 0
                 ELSE alternating[p - 1] + (IF p % 2 = 1 THEN minor[p] ELSE -minor[p])
         IN  alternating[Len(cols)]

SpeciesSeq == [p \in 1 .. NSP |-> p - 1]

\* dgetrf on an N x N matrix: info is nonzero exactly when a pivot is zero,
\* that is, when the matrix is singular
DgetrfInfo(A) ==
    IF Det(IntegerRows(A, [k \in Species |-> RZero]), SpeciesSeq, SpeciesSeq) = 0
    THEN 1 ELSE 0

\* dgetrs with the factors of a nonsingular A: the solution of A v = g
LinearSolve(A, g) ==
    LET Z == IntegerRows(A, g)
        dA == Det(Z, SpeciesSeq, SpeciesSeq)
    IN  Stored([j \in Species |->
            Rat(Det(Z, SpeciesSeq, [p \in 1 .. NSP |-> IF p - 1 = j THEN NSP ELSE p - 1]),
                dA)])

\* ------------------------------------------------------------ queries
\* Every query maps the world (after Begin) to [w |-> the world it leaves,
\* status, proc, out]: status is "ok", "CanteraError" (proc names the
\* thrower) or "exit".

\* ghost: a query starts
Begin(w) == [w EXCEPT !.ghost.assembled = FALSE, !.ghost.solves = 0,
                      !.ghost.factorizations = 0,
                      !.ghost.thrown = [proc |-> "", msg |-> ""]]

Thrown(w) == w.ghost.thrown.proc # ""

Result(w, out) == [w |-> w, status |-> "ok", proc |-> "", out |-> out]
\* a faulty throw: the error is swallowed and the query returns normally
ThrowSwallowed(w, out) == Result(w, out)

\* throw CanteraError(proc, msg): the query ends there
Throw(w, out) == [w |-> w, status |-> "CanteraError", proc |-> w.ghost.thrown.proc, out |-> out]

viscosity(w0) ==
    LET mix(w) == Result(w, [f |-> "vismix", x |-> w.mt.m_molefracs, visc |-> w.mt.m_visc,
                             phi |-> w.mt.m_phi])
    IN  mix(updateTransport_C(updateViscosity_T(w0)))

\* an entry of a caller's array that the query did not write
Untouched == <<0, 0>>

\* d is the caller's array of ld * NSP entries
getBinaryDiffCoeffs(w0, ld, d) ==
    LET scaled(w, rp) ==
            Result(w, Stored([n \in DOMAIN d |->
                IF n % ld < NSP /\ n \div ld < NSP
                THEN RMul(rp, w.mt.m_bdiff[n % ld, n \div ld])
                ELSE d[n]]))
    IN  scaled(updateDiff_T(w0), RDiv(RInt(1), pressure_ig(w0.thermo)))

thermalConductivity(w0, ext) ==
    LET out(w) == [f |-> "-4*sum(b[k]*a[k])",
                   b |-> Stored([k \in NSP .. (3 * NSP - 1) |-> w.mt.m_b[k]]),
                   a |-> w.mt.m_a]
        sum(w) == IF Thrown(w) THEN Throw(w, out(w)) ELSE Result(w, out(w))
    IN  sum(solveLMatrixEquation(w0, ext))

\* faulty coefficients: the mole fraction is left out
ThermalDiffCoeffsWithoutMoleFraction(m) ==
    Stored([k \in Species |->
        [coef |-> RMul(Rat(8, 5), RInt(MolecularWeight(k))),
         a |-> m.m_a]])

\* the thermal diffusion coefficients: dt[k] = coef * a[k], a the solution
\* vector m_a, coef = (1.6/R) mw[k] x[k]   (R = 1)
ThermalDiffCoeffs(m) ==
    Stored([k \in Species |->
        [coef |-> RMul(Rat(8, 5), RMul(RInt(MolecularWeight(k)), MoleFrac(m, k))),
         a |-> m.m_a]])

getThermalDiffCoeffs(w0, ext, dt) ==
    LET fill(w) == IF Thrown(w) THEN Throw(w, dt) ELSE Result(w, ThermalDiffCoeffs(w.mt))
    IN  fill(solveLMatrixEquation(w0, ext))

\* a faulty scan: fabs(grad_X[j]) >= gradmax, so the last maximum wins
RECURSIVE JMaxLastFrom(_, _, _, _)
JMaxLastFrom(grad_X, j, jmax, gradmax) ==
    IF j = NSP THEN jmax
    ELSE IF Abs(grad_X[j]) >= gradmax
         THEN JMaxLastFrom(grad_X, j + 1, j, Abs(grad_X[j]))
         ELSE JMaxLastFrom(grad_X, j + 1, jmax, gradmax)

JMaxTakesLastMaximum(grad_X) == JMaxLastFrom(grad_X, 0, 0, -1)

\* the scan for jmax from species j on, jmax and gradmax as the loop holds
\* them
RECURSIVE JMaxFrom(_, _, _, _)
JMaxFrom(grad_X, j, jmax, gradmax) ==
    IF j = NSP THEN jmax
    ELSE IF Abs(grad_X[j]) > gradmax
         THEN JMaxFrom(grad_X, j + 1, j, Abs(grad_X[j]))
         ELSE JMaxFrom(grad_X, j + 1, jmax, gradmax)

\* the row getSpeciesFluxes replaces: jmax = 0, gradmax = -1.0, then the scan
\* over grad_X[j], j < NSP (the first spatial direction)
JMax(grad_X) == JMaxFrom(grad_X, 0, 0, -1)

\* a faulty assembly: m_aa(i,i) = -sum, the entry written in the inner loop
\* is lost
FluxMatrixOverwritesDiagonal(m) ==
    LET a == Stored([i \in Species, j \in Species |->
                RDiv(RMul(MoleFrac(m, j), MoleFrac(m, i)), m.m_bdiff[i, j])])
    IN  Stored([i \in Species, j \in Species |->
            IF i = j THEN RNeg(RSum([c \in Species |-> a[i, c]], Species))
            ELSE a[i, j]])

\* the matrix of getSpeciesFluxes before the row substitution:
\* m_aa(i,j) = x[j] x[i] / m_bdiff(i,j), sum the sum of row i as written,
\* then m_aa(i,i) -= sum
FluxMatrix(m) ==
    LET a == Stored([i \in Species, j \in Species |->
                RDiv(RMul(MoleFrac(m, j), MoleFrac(m, i)), m.m_bdiff[i, j])])
    IN  Stored([i \in Species, j \in Species |->
            IF i = j THEN RSub(a[i, i], RSum([c \in Species |-> a[i, c]], Species))
            ELSE a[i, j]])

\* a flux entry is v - dt * a[k]: v a number, a[k] component k of the
\* solution vector of the L-matrix equation
FluxEntry(v, dt) == [v |-> v, dt |-> dt]

\* a faulty substitution: row jmax is replaced by the cached mole fractions
FluxSystemWritesMoleFractions(m, y, jmax) ==
    LET A0 == FluxMatrix(m)
    IN  Stored([i \in Species, j \in Species |->
            IF i = jmax THEN MoleFrac(m, j) ELSE A0[i, j]])

\* a faulty substitution: the first row is replaced, whatever jmax is
FluxSystemReplacesFirstRow(m, y, jmax) ==
    LET A0 == FluxMatrix(m)
    IN  Stored([i \in Species, j \in Species |-> IF i = 0 THEN y[j] ELSE A0[i, j]])

\* the matrix handed to dgetrf: row jmax of the flux matrix replaced by the
\* mass fractions y
FluxSystem(m, y, jmax) ==
    LET A0 == FluxMatrix(m)
    IN  Stored([i \in Species, j \in Species |-> IF i = jmax THEN y[j] ELSE A0[i, j]])

\* a faulty right-hand side: entry jmax keeps its gradient
FluxRightHandSideKeepsJmax(ndim, ldx, grad_X, ldf, fluxes, jmax) ==
    Stored([n \in DOMAIN fluxes |->
        IF n % ldf < NSP /\ n \div ldf < ndim
        THEN RInt(grad_X[ldx * (n \div ldf) + (n % ldf)])
        ELSE fluxes[n].v])

\* the right-hand sides as they are copied into fluxes: the gradients, with
\* entry jmax of every direction set to zero
FluxRightHandSide(ndim, ldx, grad_X, ldf, fluxes, jmax) ==
    Stored([n \in DOMAIN fluxes |->
        IF n % ldf < NSP /\ n \div ldf < ndim
        THEN IF n % ldf = jmax THEN RZero
             ELSE RInt(grad_X[ldx * (n \div ldf) + (n % ldf)])
        ELSE fluxes[n].v])

\* a faulty test: the thermal diffusion coefficients are always asked for
AddThermalDiffusionAlways(ndim, grad_T) == TRUE

\* addThermalDiffusion: some component of grad_T is nonzero
AddThermalDiffusion(ndim, grad_T) == \E i \in 0 .. (ndim - 1) : grad_T[i] # 0

\* grad_T has ndim entries, grad_X ldx * ndim, fluxes ldf * ndim;
\* ext.info2 is what dgetrs reports
getSpeciesFluxes(w0, ndim, grad_T, ldx, grad_X, ldf, fluxes, ext) ==
    LET addThermalDiffusion == AddThermalDiffusion(ndim, grad_T)
        jmax == JMax(grad_X)
        rhs == FluxRightHandSide(ndim, ldx, grad_X, ldf, fluxes, jmax)
        copied == Stored([n \in DOMAIN fluxes |-> FluxEntry(rhs[n], fluxes[n].dt)])
        \* fluxes[i + offset] *= rho * y[i] / pp
        massFlux(v, y, rho, pp, n) ==
            RMul(v[n \div ldf][n % ldf], RDiv(RMul(rho, y[n % ldf]), pp))
        \* fluxes[i + offset] -= m_spwork[i] * grad_logt
        thermal(m_spwork, m_temp, n) ==
            IF addThermalDiffusion
            THEN RMul(m_spwork[n % ldf].coef, Rat(grad_T[n \div ldf], m_temp))
            ELSE RZero
        scaled(w, m_spwork, y, rho, pp, v) ==
            Result(w, Stored([n \in DOMAIN fluxes |->
                IF n % ldf < NSP /\ n \div ldf < ndim
                THEN FluxEntry(massFlux(v, y, rho, pp, n), thermal(m_spwork, w.mt.m_temp, n))
                ELSE fluxes[n]]))
        \* m_spwork and m_aa are work space, written here before they are
        \* read, and are not kept in mt
        factorized(w, m_aa, y) ==
            IF DgetrfInfo(m_aa) # 0
            THEN Throw([w EXCEPT !.ghost.thrown =
                          [proc |-> "MultiTransport::getSpeciesFluxes", msg |-> "Error in DGETRF"]],
                       copied)
            ELSE IF ext.info2 # 0
            THEN Throw([w EXCEPT !.ghost.thrown =
                          [proc |-> "MultiTransport::getSpeciesFluxes", msg |-> "Error in DGETRS"]],
                       copied)
            ELSE scaled(w, ThermalDiffCoeffs(w.mt), y, density(w.thermo), pressure_ig(w.thermo),
                        Stored([n \in 0 .. (ndim - 1) |->
                            LinearSolve(m_aa, [k \in Species |-> rhs[ldf * n + k]])]))
        assembled(w, y) ==
            IF Thrown(w) THEN Throw(w, fluxes)
            ELSE factorized([w EXCEPT !.ghost.factorizations = IF @ < 2 THEN @ + 1 ELSE @],
                            FluxSystem(w.mt, y, jmax), y)
        diffusion(w) ==
            assembled(IF addThermalDiffusion THEN solveLMatrixEquation(w, ext) ELSE w,
                      massFractions(w.thermo))
    IN  diffusion(updateDiff_T(w0))

\* an entry of the caller's array of getMultiDiffCoeffs:
\* coef * (Linv(i,j) - Linv(i,i)), Linv the inverse of the block `of`
MultiDiffEntry(coef, i, j, of) == [coef |-> coef, i |-> i, j |-> j, of |-> of]

\* a faulty entry: the diagonal of the inverse is not subtracted
MultiDiffValueWithoutDiagonal(e, Linv) == RMul(e.coef, Linv[e.i, e.j])

\* the number an entry stands for when the inverted block is Linv:
\* c * m_molefracs[i] * (m_Lmatrix(i,j) - m_Lmatrix(i,i))
MultiDiffValue(e, Linv) == RMul(e.coef, RSub(Linv[e.i, e.j], Linv[e.i, e.i]))

\* a faulty getMultiDiffCoeffs: the block is evaluated only while the matrix
\* is empty
GetMultiDiffCoeffsReusesBlock(w0, ld, d, ext) ==
    LET p == pressure_ig(w0.thermo)
        evaluated(w) ==
            IF w.mt.m_Lmatrix.l0000.form = "zero"
            THEN [w EXCEPT !.mt.m_Lmatrix.l0000 = EvalBlock(w.mt)] ELSE w
        inverted(w) == [w EXCEPT !.mt.m_Lmatrix.l0000.form = "inverse"]
        prefactor(w) == RDiv(RMul(RInt(16 * w.mt.m_temp), meanMolecularWeight(w.thermo)),
                             RMul(RInt(25), p))
        \* blk is the block handed to invert
        coefficients(w, blk) ==
            Stored([n \in DOMAIN d |->
                IF n % ld < NSP /\ n \div ld < NSP
                THEN MultiDiffEntry(
                        RMul(RDiv(prefactor(w), RInt(MolecularWeight(n \div ld))),
                             MoleFrac(w.mt, n % ld)),
                        n % ld, n \div ld, blk)
                ELSE d[n]])
        finish(w) ==
            IF ext.ierr # 0
            THEN [w |-> inverted(w), status |-> "exit",
                  proc |-> "MultiTransport::getMultiDiffCoeffs", out |-> d]
            ELSE Result([inverted(w) EXCEPT !.mt.m_l0000_ok = FALSE],
                        coefficients(w, w.mt.m_Lmatrix.l0000))
    IN  finish(evaluated(updateDiff_T(updateTransport_C(w0))))

\* ext.ierr is what invert reports
getMultiDiffCoeffs(w0, ld, d, ext) ==
    LET p == pressure_ig(w0.thermo)
        evaluated(w) ==
            IF ~w.mt.m_l0000_ok
            THEN [w EXCEPT !.mt.m_Lmatrix.l0000 = EvalBlock(w.mt)] ELSE w
        inverted(w) == [w EXCEPT !.mt.m_Lmatrix.l0000.form = "inverse"]
        prefactor(w) == RDiv(RMul(RInt(16 * w.mt.m_temp), meanMolecularWeight(w.thermo)),
                             RMul(RInt(25), p))
        \* blk is the block handed to invert
        coefficients(w, blk) ==
            Stored([n \in DOMAIN d |->
                IF n % ld < NSP /\ n \div ld < NSP
                THEN MultiDiffEntry(
                        RMul(RDiv(prefactor(w), RInt(MolecularWeight(n \div ld))),
                             MoleFrac(w.mt, n % ld)),
                        n % ld, n \div ld, blk)
                ELSE d[n]])
        finish(w) ==
            IF ext.ierr # 0
            THEN [w |-> inverted(w), status |-> "exit",
                  proc |-> "MultiTransport::getMultiDiffCoeffs", out |-> d]
            ELSE Result([inverted(w) EXCEPT !.mt.m_l0000_ok = FALSE],
                        coefficients(w, w.mt.m_Lmatrix.l0000))
    IN  finish(evaluated(updateDiff_T(updateTransport_C(w0))))

\* ------------------------------------------------------------ SpeciesThermoFactory
\* threads that call SpeciesThermoFactory::factory() and deleteFactory()
NThreads == 2
Threads == 1 .. NThreads
\* instances the threads may construct before they stop calling
MaxInstances == 3

\* ------------------------------------------------------------ the state machine
World == [thermo |-> thermo, mt |-> mt, ghost |-> ghost]

SpeciesZeros == [k \in Species |-> RZero]
MatrixZeros == [i \in Species, j \in Species |-> RZero]
IntMatrixZeros == [i \in Species, j \in Species |-> 0]

NoTC == [set |-> FALSE, out |-> [f |-> "", b |-> <<>>, a |-> <<>>]]
NoBD == [set |-> FALSE, temperature |-> 0, pressure |-> RZero, d |-> MatrixZeros]

\* the leading dimension and the arrays callers hand in: one column more
\* than the species, so that every array has entries the query must skip
LeadDims == {NSP + 1}
FreshArray(len) == [n \in 0 .. (len - 1) |-> Untouched]
FreshFluxes(len) == [n \in 0 .. (len - 1) |-> FluxEntry(Untouched, RZero)]

\* the mole-fraction gradients callers hand in: pattern 3 is all zero, the
\* others run through -1, 0, 1
GradPatterns == 0 .. 3
GradX(pat, len) == [n \in 0 .. (len - 1) |-> IF pat = 3 THEN 0 ELSE ((n + pat) % 3) - 1]

\* what the linear solvers report: solve (info), dgetrs (info2), gmres
\* (conv) and invert (ierr)
NoExt == [info |-> 0, info2 |-> 0, conv |-> TRUE, ierr |-> 0]
SolveOutcomes == {NoExt, [NoExt EXCEPT !.info = 1]}
FluxOutcomes == {NoExt, [NoExt EXCEPT !.info = 1], [NoExt EXCEPT !.info2 = -8]}
BackSolveOutcomes == {NoExt, [NoExt EXCEPT !.info2 = -8]}
InvertOutcomes == {NoExt, [NoExt EXCEPT !.ierr = 1]}

\* the state init() leaves, on a phase in any state.  The constructor and
\* init() assign nothing to m_temp, m_logt, m_kbt, m_sqrt_t, m_t32, m_sqrt_kbt
\* and the entries of m_polytempvec; every routine that reads them runs
\* _update_transport_T first (no updater is up to date), so the 0 they hold
\* here is never read.
Init ==
    /\ \E t \in Temps, x \in Compositions :
          thermo = [temperature |-> t, moleFractions |-> x,
                    up_T |-> [n \in Updaters_T |-> FALSE], up_C |-> FALSE]
    /\ \E mode \in Modes :
          mt = [m_mode |-> mode, m_gmres |-> FALSE,
                m_temp |-> 0, m_logt |-> 0, m_kbt |-> 0, m_sqrt_t |-> 0, m_t32 |-> 0,
                m_sqrt_kbt |-> 0, m_polytempvec |-> <<0, 0, 0, 0, 0>>,
                m_visc_ok |-> FALSE, m_spvisc_ok |-> FALSE, m_diff_ok |-> FALSE,
                m_abc_ok |-> FALSE, m_l0000_ok |-> FALSE, m_lmatrix_soln_ok |-> FALSE,
                m_visc |-> SpeciesZeros,
                m_phi |-> [k \in Species, j \in Species |->
                            [f |-> "zero", vratio |-> RZero, wratio |-> RZero]],
                m_bdiff |-> MatrixZeros,
                m_om22 |-> IntMatrixZeros, m_astar |-> IntMatrixZeros,
                m_bstar |-> IntMatrixZeros, m_cstar |-> IntMatrixZeros,
                m_rotrelax |-> [k \in Species |->
                            [f |-> "zero", k |-> k, kbt |-> 0, sqrt_t |-> 0]],
                m_cinternal |-> SpeciesZeros,
                m_log_eps_k |-> [i \in Species, j \in Species |->
                            IF i <= j THEN LogEpsilonOverK(i, j) ELSE LogEpsilonOverK(j, i)],
                m_molefracs |-> [k \in Species |-> 0],
                m_Lmatrix |-> [l0000 |-> [form |-> "zero", temp |-> 0, x |-> [k \in Species |-> 0]],
                               rest |-> [form |-> "zero", temp |-> 0, x |-> [k \in Species |-> 0]]],
                m_a |-> [form |-> "ones", conv |-> FALSE, b |-> [k \in N3 |-> 1],
                         temp |-> 0, guess |-> ""],
                m_b |-> [k \in N3 |-> 0]]
    /\ ghost = [runs |-> [r \in Routines |-> 0], assembled |-> FALSE,
                solves |-> 0, factorizations |-> 0, thrown |-> [proc |-> "", msg |-> ""], lastBD |-> NoBD]
    /\ ret = [op |-> "init", args |-> <<>>, ext |-> NoExt, status |-> "ok", proc |-> "", out |-> <<>>,
              prevTC |-> NoTC, prevBD |-> NoBD]
    /\ flow = [m_trans |-> "0", m_do_soret |-> FALSE, m_transport_option |-> "-1"]
    /\ stf = [s_factory |-> 0, mutex |-> 0, pc |-> [t \in Threads |-> "idle"],
              result |-> [t \in Threads |-> 0], made |-> 0, live |-> {}, freed |-> {}]

\* nothing runs once the process has exited or has been killed
Running == ret.status \notin {"exit", "killed"}

\* what the next operation remembers of the one before it
PrevTC ==
    IF ret.op = "thermalConductivity" /\ ret.status = "ok"
    THEN [set |-> TRUE, out |-> ret.out] ELSE NoTC

\* a query has returned: rr is the set of its one outcome
Return(op, args, ext, rr) ==
    \E r \in rr :
    /\ thermo' = r.w.thermo
    /\ mt' = r.w.mt
    /\ ghost' = r.w.ghost
    /\ ret' = [op |-> op, args |-> args, ext |-> ext, status |-> r.status, proc |-> r.proc,
               out |-> r.out, prevTC |-> IF op = "thermalConductivity" THEN PrevTC ELSE NoTC,
               prevBD |-> NoBD]
    /\ UNCHANGED <<flow, stf>>

\* State::setTemperature: the temperature changes and every temperature
\* updater is marked stale
setTemperature(t) ==
    /\ Running
    /\ t # thermo.temperature
    /\ thermo' = [thermo EXCEPT !.temperature = t, !.up_T = [n \in Updaters_T |-> FALSE]]
    /\ ghost' = [ghost EXCEPT !.lastBD = NoBD,
                    !.runs = [r \in Routines |->
                                IF r = "_update_transport_C" THEN ghost.runs[r] ELSE 0]]
    /\ ret' = [op |-> "setTemperature", args |-> <<t>>, ext |-> NoExt, status |-> "ok", proc |-> "",
               out |-> <<>>, prevTC |-> NoTC, prevBD |-> NoBD]
    /\ UNCHANGED <<mt, flow, stf>>

\* State::setMoleFractions: the composition changes and the composition
\* updater is marked stale
setMoleFractions(x) ==
    /\ Running
    /\ x # thermo.moleFractions
    /\ thermo' = [thermo EXCEPT !.moleFractions = x, !.up_C = FALSE]
    /\ ghost' = [ghost EXCEPT !.runs["_update_transport_C"] = 0]
    /\ ret' = [op |-> "setMoleFractions", args |-> <<x>>, ext |-> NoExt, status |-> "ok", proc |-> "",
               out |-> <<>>, prevTC |-> NoTC, prevBD |-> NoBD]
    /\ UNCHANGED <<mt, flow, stf>>

Viscosity == Running /\ Return("viscosity", <<>>, NoExt, {viscosity(Begin(World))})

GetBinaryDiffCoeffs ==
    /\ Running
    /\ \E ld \in LeadDims :
        \E r \in {getBinaryDiffCoeffs(Begin(World), ld, FreshArray(ld * NSP))} :
        LET bd == [set |-> TRUE, temperature |-> thermo.temperature,
                   pressure |-> pressure_ig(thermo),
                   d |-> [i \in Species, j \in Species |-> r.out[ld * j + i]]]
        IN  /\ thermo' = r.w.thermo
            /\ mt' = r.w.mt
            /\ ghost' = [r.w.ghost EXCEPT !.lastBD = bd]
            /\ ret' = [op |-> "getBinaryDiffCoeffs", args |-> <<ld>>, ext |-> NoExt, status |-> r.status,
                       proc |-> r.proc, out |-> r.out, prevTC |-> NoTC,
                       prevBD |-> ghost.lastBD]
            /\ UNCHANGED <<flow, stf>>

ThermalConductivity ==
    /\ Running
    /\ \E ext \in SolveOutcomes :
        Return("thermalConductivity", <<>>, ext, {thermalConductivity(Begin(World), ext)})

GetThermalDiffCoeffs ==
    /\ Running
    /\ \E ext \in SolveOutcomes :
        Return("getThermalDiffCoeffs", <<>>, ext,
               {getThermalDiffCoeffs(Begin(World), ext,
                                     [k \in Species |-> [coef |-> RZero, a |-> <<>>]])})

\* vector_fp grx(ldx*m_nsp): the length of the scratch copy of the gradients
GrxLength(ldx) == ldx * NSP

\* the indices of grx the copy loop writes: n = 0 .. ldx*ndim - 1
GrxWrites(ndim, ldx) == 0 .. (ldx * ndim - 1)

\* what a call that would return r can do: a write past the end of grx is
\* undefined behaviour, after which the call either goes on as if nothing had
\* happened or the process is killed before fluxes is written
GrxOutcomes(r, ndim, ldx, fluxes) ==
    IF GrxWrites(ndim, ldx) \subseteq 0 .. (GrxLength(ldx) - 1) THEN {r}
    ELSE {r, [r EXCEPT !.status = "killed", !.proc = "MultiTransport::getSpeciesFluxes",
                       !.out = fluxes]}

\* the caller's gradients have leading dimension ldx, the fluxes NSP; the
\* solver behind the thermal diffusion coefficients is reached only with a
\* temperature gradient
GetSpeciesFluxesIn(ndim, ldx, pat, grad_T, ext) ==
    /\ Running
    /\ (ext.info # 0) => \E i \in 0 .. (ndim - 1) : grad_T[i] # 0
    /\ LET grad_X == GradX(pat, ldx * ndim)
       IN  Return("getSpeciesFluxes",
                  [ndim |-> ndim, grad_T |-> grad_T, ldx |-> ldx, grad_X |-> grad_X,
                   ldf |-> NSP], ext,
                  GrxOutcomes(getSpeciesFluxes(Begin(World), ndim, grad_T, ldx, grad_X, NSP,
                                               FreshFluxes(NSP * ndim), ext),
                              ndim, ldx, FreshFluxes(NSP * ndim)))

\* the caller's arrays have leading dimension NSP
GetSpeciesFluxes(ndim, pat, grad_T, ext) == GetSpeciesFluxesIn(ndim, NSP, pat, grad_T, ext)

GetMultiDiffCoeffs ==
    /\ Running
    /\ \E ld \in LeadDims, ext \in InvertOutcomes :
        Return("getMultiDiffCoeffs", <<ld>>, ext,
               {getMultiDiffCoeffs(Begin(World), ld,
                    [n \in 0 .. (ld * NSP - 1) |-> MultiDiffEntry(RZero, 0, 0, <<>>)],
                    ext)})

\* a uniform temperature gradient g in every direction
UniformGradT(ndim, g) == [i \in 0 .. (ndim - 1) |-> g]

\* the queries, with getSpeciesFluxes in one direction
Queries ==
    \/ Viscosity
    \/ GetBinaryDiffCoeffs
    \/ ThermalConductivity
    \/ GetThermalDiffCoeffs
    \/ \E g \in {0, 1}, ext \in FluxOutcomes : GetSpeciesFluxes(1, 0, UniformGradT(1, g), ext)
    \/ GetMultiDiffCoeffs

\* temperature changes and queries on a phase of fixed composition
NextT ==
    \/ \E t \in Temps : setTemperature(t)
    \/ Queries

SpecT == Init /\ [][NextT]_vars

\* composition changes and queries on a phase of fixed temperature
NextC ==
    \/ \E x \in Compositions : setMoleFractions(x)
    \/ Queries

SpecC == Init /\ [][NextC]_vars

\* composition changes and getSpeciesFluxes in up to MaxDim directions, with
\* every gradient pattern
NextFlux ==
    \/ \E x \in Compositions : setMoleFractions(x)
    \/ \E ndim \in 1 .. MaxDim, pat \in GradPatterns, g \in {0, 1}, ext \in BackSolveOutcomes :
          GetSpeciesFluxes(ndim, pat, UniformGradT(ndim, g), ext)

SpecFlux == Init /\ [][NextFlux]_vars

\* the directions and leading dimensions of getSpeciesFluxes: one direction
\* more than there are species, and gradients stored with or without a spare
\* column
WideDim == NSP + 1
GradLeadDims == {NSP, NSP + 1}

\* composition changes and getSpeciesFluxes in up to WideDim directions, with
\* a zero temperature gradient
NextDims ==
    \/ \E x \in Compositions : setMoleFractions(x)
    \/ \E ndim \in 1 .. WideDim, ldx \in GradLeadDims, pat \in GradPatterns,
          ext \in BackSolveOutcomes :
          GetSpeciesFluxesIn(ndim, ldx, pat, UniformGradT(ndim, 0), ext)

SpecDims == Init /\ [][NextDims]_vars

\* what gmres reports: its iteration budget sufficed (conv) or was exhausted
GmresOutcomes == {NoExt, [NoExt EXCEPT !.conv = FALSE]}

\* the solution method is chosen once, by the model builder, before the
\* first query, and stays as chosen
setSolutionMethod(gmres) ==
    /\ ret.op = "init"
    /\ mt' = [mt EXCEPT !.m_gmres = gmres]
    /\ ret' = [ret EXCEPT !.op = "setSolutionMethod", !.args = <<gmres>>]
    /\ UNCHANGED <<thermo, ghost, flow, stf>>

\* thermalConductivity with the outcomes of the solver the method selects
ThermalConductivityBy ==
    /\ Running
    /\ \E ext \in (IF mt.m_gmres THEN GmresOutcomes ELSE SolveOutcomes) :
        Return("thermalConductivity", <<>>, ext, {thermalConductivity(Begin(World), ext)})

\* either solution method, temperature and composition changes, and the
\* two queries that read or write the L matrix
NextG ==
    \/ \E gmres \in BOOLEAN : setSolutionMethod(gmres)
    \/ \E t \in Temps : setTemperature(t)
    \/ \E x \in Compositions : setMoleFractions(x)
    \/ ThermalConductivityBy
    \/ GetMultiDiffCoeffs

SpecG == Init /\ [][NextG]_vars

\* the same with the viscosity query, which sets the two viscosity flags, on
\* a phase that starts at the lower temperature
InitFlags == Init /\ mt.m_mode = "cantera" /\ thermo.temperature = 4

NextFlags ==
    \/ \E gmres \in BOOLEAN : setSolutionMethod(gmres)
    \/ \E t \in Temps : setTemperature(t)
    \/ \E x \in Compositions : setMoleFractions(x)
    \/ Viscosity
    \/ ThermalConductivityBy
    \/ GetMultiDiffCoeffs

SpecFlags == InitFlags /\ [][NextFlags]_vars

\* ------------------------------------------------------------ StFlow
\* what m_trans->model() can answer: the two models setTransport knows and
\* two it does not
TransportModels == {"cMulticomponent", "cMixtureAveraged", "unknown1", "unknown2"}

\* a faulty setTransport: the Soret test is missing
SetTransportAllowsSoret(f, model, withSoret) ==
    LET installed == [f EXCEPT !.m_trans = model, !.m_do_soret = withSoret]
    IN  IF model = "cMulticomponent"
        THEN [flow |-> [installed EXCEPT !.m_transport_option = "c_Multi_Transport"],
              status |-> "ok", proc |-> "", msg |-> ""]
        ELSE IF model = "cMixtureAveraged"
        THEN [flow |-> [installed EXCEPT !.m_transport_option = "c_Mixav_Transport"],
              status |-> "ok", proc |-> "", msg |-> ""]
        ELSE [flow |-> installed, status |-> "CanteraError", proc |-> "setTransport",
              msg |-> "unknown transport model."]

\* StFlow::setTransport on the flow f: [flow |-> the fields it leaves, status,
\* proc, msg]
setTransport(f, model, withSoret) ==
    LET installed == [f EXCEPT !.m_trans = model, !.m_do_soret = withSoret]
    IN  IF model = "cMulticomponent"
        THEN [flow |-> [installed EXCEPT !.m_transport_option = "c_Multi_Transport"],
              status |-> "ok", proc |-> "", msg |-> ""]
        ELSE IF model = "cMixtureAveraged"
        THEN IF withSoret
             THEN [flow |-> [installed EXCEPT !.m_transport_option = "c_Mixav_Transport"],
                   status |-> "CanteraError", proc |-> "setTransport",
                   msg |-> "Thermal diffusion (the Soret effect) requires using a multicomponent transport model."]
             ELSE [flow |-> [installed EXCEPT !.m_transport_option = "c_Mixav_Transport"],
                   status |-> "ok", proc |-> "", msg |-> ""]
        ELSE [flow |-> installed, status |-> "CanteraError", proc |-> "setTransport",
              msg |-> "unknown transport model."]

SetTransport(model, withSoret) ==
    /\ \E r \in {setTransport(flow, model, withSoret)} :
        /\ flow' = r.flow
        /\ ret' = [op |-> "setTransport", args |-> <<model, withSoret>>, ext |-> NoExt,
                   status |-> r.status, proc |-> r.proc, out |-> r.msg,
                   prevTC |-> NoTC, prevBD |-> NoBD]
    /\ UNCHANGED <<thermo, mt, ghost, stf>>

\* transport managers are installed in the flow, one after another
NextFlow == \E model \in TransportModels, withSoret \in BOOLEAN : SetTransport(model, withSoret)

SpecFlow == Init /\ [][NextFlow]_vars

\* ------------------------------------------------------------ importSolution
\* A mechanism is the sequence of its species names; a solution array holds,
\* for every grid point, u, V, T, lambda and then the mass fractions.

\* grid points of a solution: 1 .. MaxPoints
MaxPoints == 2

nSpecies(mech) == Len(mech)
speciesName(mech, k) == mech[k + 1]

\* the index of the species named nm, -1 when the mechanism has none
speciesIndex(mech, nm) ==
    IF \E q \in 1 .. Len(mech) : mech[q] = nm
    THEN (CHOOSE q \in 1 .. Len(mech) : mech[q] = nm /\ \A r \in 1 .. (q - 1) : mech[r] # nm) - 1
    ELSE -1

\* what 0.0/0.0 gives
NotANumber == <<1, 0>>

\* setMassFractions followed by getMassFractions: the vector divided by its
\* sum
NormalizedMassFractions(y) ==
    LET norm == RSum(y, DOMAIN y)
    IN  IF RIsZero(norm) THEN [k \in DOMAIN y |-> NotANumber]
        ELSE [k \in DOMAIN y |-> RDiv(y[k], norm)]

\* oldSoln has (nSpecies(oldmech) + 4) * points entries, newSoln size_new
importSolution(points, oldSoln, oldmech, size_new, newSoln, newmech) ==
    LET nv_old == nSpecies(oldmech) + 4
        nv_new == nSpecies(newmech) + 4
        inside(i) == i < nv_new * points
        \* the old species stored at index knew of the new mechanism
        source(knew) == {k \in 0 .. (nSpecies(oldmech) - 1) :
                            speciesIndex(newmech, speciesName(oldmech, k)) = knew}
        \* copy u, V, T, lambda, then the species of the old mechanism in
        \* the order of the loop: the last one written stays
        copied == [i \in DOMAIN newSoln |->
            IF ~inside(i) THEN newSoln[i]
            ELSE IF (i % nv_new) < 4 THEN oldSoln[nv_old * (i \div nv_new) + (i % nv_new)]
            ELSE IF source((i % nv_new) - 4) # {}
            THEN oldSoln[nv_old * (i \div nv_new) + 4
                         + (CHOOSE k \in source((i % nv_new) - 4) :
                               \A l \in source((i % nv_new) - 4) : l <= k)]
            ELSE newSoln[i]]
        \* normalize mass fractions, point by point
        normalized(a) == [i \in DOMAIN a |->
            IF inside(i) /\ (i % nv_new) >= 4
            THEN NormalizedMassFractions(
                     [k \in 0 .. (nSpecies(newmech) - 1) |->
                         a[nv_new * (i \div nv_new) + 4 + k]])[(i % nv_new) - 4]
            ELSE a[i]]
    IN  IF size_new < nv_new * points
        THEN [status |-> "CanteraError", proc |-> "importSolution", out |-> newSoln]
        ELSE [status |-> "ok", proc |-> "", out |-> normalized(copied)]

\* the mechanisms of the old and of the new solution
OldMechs == {<<"A", "B">>, <<"B">>}
NewMechs == {<<"B", "A">>, <<"B", "C">>}

\* mass fractions of one grid point of a converged solution: multiples of
\* 1/XOne that sum to one
PointMassFractions(nsp) ==
    {y \in [0 .. (nsp - 1) -> {Rat(q, XOne) : q \in 0 .. XOne}] :
        RSum(y, 0 .. (nsp - 1)) = RInt(1)}

\* the old solutions: at point j the flow components are 10 j + 1 .. 10 j + 4
OldSolutions(points, oldmech) ==
    {[i \in 0 .. ((nSpecies(oldmech) + 4) * points - 1) |->
         IF (i % (nSpecies(oldmech) + 4)) < 4
         THEN RInt(10 * (i \div (nSpecies(oldmech) + 4)) + (i % (nSpecies(oldmech) + 4)) + 1)
         ELSE yy[i \div (nSpecies(oldmech) + 4)][(i % (nSpecies(oldmech) + 4)) - 4]] :
     yy \in [0 .. (points - 1) -> PointMassFractions(nSpecies(oldmech))]}

\* what the array of the new solution holds before the call: -1 in the flow
\* components and past the last point, and at every point either 0 or 1/XOne
\* in all the mass fractions
NewSolutions(points, size_new, newmech) ==
    {[i \in 0 .. (size_new - 1) |->
         IF i < (nSpecies(newmech) + 4) * points /\ (i % (nSpecies(newmech) + 4)) >= 4
         THEN Rat(yy[i \div (nSpecies(newmech) + 4)], XOne)
         ELSE RInt(-1)] :
     yy \in [0 .. (points - 1) -> {0, 1}]}

ImportSolution(points, oldmech, newmech) ==
    \E slack \in {-1, 0} :
        LET size_new == (nSpecies(newmech) + 4) * points + slack
        IN  \E oldSoln \in OldSolutions(points, oldmech),
               newSoln \in NewSolutions(points, size_new, newmech) :
            LET r == importSolution(points, oldSoln, oldmech, size_new, newSoln, newmech)
            IN  /\ ret' = [op |-> "importSolution",
                           args |-> [points |-> points, oldSoln |-> oldSoln, oldmech |-> oldmech,
                                     size_new |-> size_new, newSoln |-> newSoln,
                                     newmech |-> newmech],
                           ext |-> NoExt, status |-> r.status, proc |-> r.proc, out |-> r.out,
                           prevTC |-> NoTC, prevBD |-> NoBD]
                /\ UNCHANGED <<thermo, mt, ghost, flow, stf>>

NextImport ==
    \E points \in 1 .. MaxPoints, oldmech \in OldMechs, newmech \in NewMechs :
        ImportSolution(points, oldmech, newmech)

\* the phase plays no part: it is the one init() leaves at the lower temperature
SpecImport == InitFlags /\ [][NextImport]_vars

\* ------------------------------------------------------------ the factory singleton
\* stf holds the static pointer s_factory (0: null, otherwise the number of
\* the instance), the holder of species_thermo_mutex (0: free), and for
\* every thread its place in factory() or deleteFactory() and the pointer its
\* last factory() call returned.  Ghost: made counts the instances
\* constructed, live holds those constructed and freed those destroyed since
\* the last delete; a delete forgets the pointers returned before it.

\* the thread stands at a place of its function
At(t, place) == stf.pc[t] = place

\* the state st with the thread moved to the place `to`
Goto(st, t, to) == [st EXCEPT !.pc[t] = to]

\* a thread enters factory()
CallFactory(t) ==
    /\ stf.made < MaxInstances
    /\ At(t, "idle")
    /\ stf' = Goto(stf, t, "factory:lock")
    /\ UNCHANGED <<thermo, mt, ghost, ret, flow>>

\* ScopedLock lock(species_thermo_mutex): the thread waits until the mutex
\* is free and takes it
FactoryLock(t) ==
    /\ At(t, "factory:lock")
    /\ stf.mutex = 0
    /\ stf' = Goto([stf EXCEPT !.mutex = t], t, "factory:test")
    /\ UNCHANGED <<thermo, mt, ghost, ret, flow>>

\* a faulty test: an instance is constructed whether or not one exists
FactoryTestAlwaysConstructs(t) ==
    /\ At(t, "factory:test")
    /\ stf' = Goto(stf, t, "factory:new")
    /\ UNCHANGED <<thermo, mt, ghost, ret, flow>>

\* if (!s_factory)
FactoryTest(t) ==
    /\ At(t, "factory:test")
    /\ stf' = Goto(stf, t, IF stf.s_factory = 0 THEN "factory:new" ELSE "factory:return")
    /\ UNCHANGED <<thermo, mt, ghost, ret, flow>>

\* s_factory = new SpeciesThermoFactory
FactoryNew(t) ==
    /\ At(t, "factory:new")
    /\ stf' = Goto([stf EXCEPT !.s_factory = stf.made + 1, !.made = @ + 1,
                               !.live = @ \cup {stf.made + 1}],
                   t, "factory:return")
    /\ UNCHANGED <<thermo, mt, ghost, ret, flow>>

\* return s_factory; the lock is released as the scope is left
FactoryReturn(t) ==
    /\ At(t, "factory:return")
    /\ stf' = Goto([stf EXCEPT !.result[t] = stf.s_factory, !.mutex = 0], t, "idle")
    /\ UNCHANGED <<thermo, mt, ghost, ret, flow>>

\* a thread enters deleteFactory()
CallDeleteFactory(t) ==
    /\ stf.made < MaxInstances
    /\ At(t, "idle")
    /\ stf' = Goto(stf, t, "deleteFactory:lock")
    /\ UNCHANGED <<thermo, mt, ghost, ret, flow>>

\* ScopedLock lock(species_thermo_mutex)
DeleteFactoryLock(t) ==
    /\ At(t, "deleteFactory:lock")
    /\ stf.mutex = 0
    /\ stf' = Goto([stf EXCEPT !.mutex = t], t, "deleteFactory:test")
    /\ UNCHANGED <<thermo, mt, ghost, ret, flow>>

\* if (s_factory)
DeleteFactoryTest(t) ==
    /\ At(t, "deleteFactory:test")
    /\ stf' = Goto(stf, t, IF stf.s_factory # 0 THEN "deleteFactory:delete"
                           ELSE "deleteFactory:return")
    /\ UNCHANGED <<thermo, mt, ghost, ret, flow>>

\* delete s_factory
DeleteFactoryDelete(t) ==
    /\ At(t, "deleteFactory:delete")
    /\ stf' = Goto([stf EXCEPT !.freed = @ \cup {stf.s_factory}, !.live = {},
                               !.result = [u \in Threads |-> 0]],
                   t, "deleteFactory:zero")
    /\ UNCHANGED <<thermo, mt, ghost, ret, flow>>

\* s_factory = 0
DeleteFactoryZero(t) ==
    /\ At(t, "deleteFactory:zero")
    /\ stf' = Goto([stf EXCEPT !.s_factory = 0], t, "deleteFactory:return")
    /\ UNCHANGED <<thermo, mt, ghost, ret, flow>>

\* the lock is released as the scope is left
DeleteFactoryReturn(t) ==
    /\ At(t, "deleteFactory:return")
    /\ stf' = Goto([stf EXCEPT !.mutex = 0], t, "idle")
    /\ UNCHANGED <<thermo, mt, ghost, ret, flow>>

NextFactory ==
    \E t \in Threads :
        \/ CallFactory(t)
        \/ FactoryLock(t)
        \/ FactoryTest(t)
        \/ FactoryNew(t)
        \/ FactoryReturn(t)
        \/ CallDeleteFactory(t)
        \/ DeleteFactoryLock(t)
        \/ DeleteFactoryTest(t)
        \/ DeleteFactoryDelete(t)
        \/ DeleteFactoryZero(t)
        \/ DeleteFactoryReturn(t)

SpecFactory == InitFlags /\ [][NextFactory]_vars

\* ------------------------------------------------------------ properties
\* the temperature-tier quantities, by the routine that computes them
TempGroup == {"m_temp", "m_logt", "m_kbt", "m_sqrt_t", "m_t32", "m_sqrt_kbt", "m_polytempvec"}
ThermalGroup == {"m_om22", "m_astar", "m_bstar", "m_cstar", "m_rotrelax", "m_cinternal"}

TRoutines == Routines \ {"_update_transport_C"}

HasGradT(args) == \E i \in DOMAIN args.grad_T : args.grad_T[i] # 0

\* the temperature-tier quantities a query reads
ReadsT(op, args) ==
    CASE op = "viscosity" -> TempGroup \cup {"m_visc", "m_phi"}
      [] op = "getBinaryDiffCoeffs" -> TempGroup \cup {"m_bdiff"}
      [] op \in {"thermalConductivity", "getThermalDiffCoeffs"} ->
            TempGroup \cup ThermalGroup \cup {"m_visc", "m_bdiff"}
      [] op = "getSpeciesFluxes" ->
            IF HasGradT(args) THEN TempGroup \cup ThermalGroup \cup {"m_visc", "m_bdiff"}
            ELSE TempGroup \cup {"m_bdiff"}
      [] op = "getMultiDiffCoeffs" -> TempGroup \cup {"m_bdiff"}
      [] OTHER -> {}

\* every temperature-tier quantity computed anew at the phase's temperature,
\* and the binary diffusion coefficients as the fits alone give them
AllStale(w) == [w EXCEPT !.thermo.up_T = [n \in Updaters_T |-> FALSE]]
RecomputedAtT ==
    _update_visc_T(_update_thermal_T(_update_diff_T(_update_species_visc_T(
        _update_transport_T(AllStale(World)))))).mt
FitsAtT == _update_diff_T(_update_transport_T(AllStale(World))).mt.m_bdiff

IsCurrent(q) ==
    IF q = "m_bdiff" THEN mt.m_bdiff \in {FitsAtT, RecomputedAtT.m_bdiff}
    ELSE mt[q] = RecomputedAtT[q]

\* what a query handed back shows of the temperature it was computed at
OutputAtCurrentT ==
    CASE ret.op = "viscosity" ->
            ret.out.visc = RecomputedAtT.m_visc /\ ret.out.phi = RecomputedAtT.m_phi
      [] ret.op = "getBinaryDiffCoeffs" ->
            \A i, j \in Species :
                RMul(ret.out[ret.args[1] * j + i], pressure_ig(thermo))
                    \in {FitsAtT[i, j], RecomputedAtT.m_bdiff[i, j]}
      [] ret.op = "thermalConductivity" /\ ret.status = "ok" ->
            ret.out.a.temp = thermo.temperature
      [] ret.op = "getThermalDiffCoeffs" /\ ret.status = "ok" ->
            \A k \in Species : ret.out[k].a.temp = thermo.temperature
      [] ret.op = "getMultiDiffCoeffs" /\ ret.status = "ok" ->
            \A i, j \in Species : ret.out[ret.args[1] * j + i].of.temp = thermo.temperature
      [] OTHER -> TRUE

\* C1: two consecutive thermalConductivity() calls with no temperature or
\* composition change between them return identical results, and the second
\* call assembles no L matrix and solves no linear system.
C1_SecondCallIsCacheHit ==
    (ret.op = "thermalConductivity" /\ ret.status = "ok" /\ ret.prevTC.set) =>
        /\ ret.out = ret.prevTC.out
        /\ ~ghost.assembled
        /\ ghost.solves = 0

\* C1, the part that holds: the second of two consecutive calls returns what
\* the first returned
C1_SameResult ==
    (ret.op = "thermalConductivity" /\ ret.status = "ok" /\ ret.prevTC.set) =>
        ret.out = ret.prevTC.out

\* C2: when a query returns, every temperature-tier quantity it reads was
\* computed at the phase's current temperature, and nothing it hands back is
\* derived from a value computed at an older temperature.
C2_ReadsAreAtCurrentTemperature ==
    /\ \A q \in ReadsT(ret.op, ret.args) : IsCurrent(q)
    /\ OutputAtCurrentT

\* C2 happens: a viscosity query has returned current species viscosities
\* while the internal heat capacities, which it does not read, are still those
\* of the previous temperature
C2_Witness ==
    /\ ret.op = "viscosity"
    /\ mt.m_visc = RecomputedAtT.m_visc
    /\ mt.m_cinternal # RecomputedAtT.m_cinternal
    /\ mt.m_cinternal # [k \in Species |-> RZero]

\* C3: getSpeciesFluxes builds its matrix from the floor-clamped mole
\* fractions of the phase's current composition, whatever the temperature
\* gradient and whatever came before.
C3_FluxMatrixFromCurrentComposition ==
    (ret.op = "getSpeciesFluxes" /\ ret.proc # "MultiTransport::solveLMatrixEquation") =>
        FluxMatrix(mt) =
            FluxMatrix([mt EXCEPT !.m_molefracs = ClampMoleFractions(thermo.moleFractions)])

\* C4: _update_transport_C changes the cached mole fractions, m_l0000_ok and
\* m_lmatrix_soln_ok and nothing else
C4_CompositionUpdateFrame ==
    LET after == _update_transport_C(World)
    IN  /\ \A f \in (DOMAIN mt) \ {"m_molefracs", "m_l0000_ok", "m_lmatrix_soln_ok"} :
              after.mt[f] = mt[f]
        /\ after.thermo = thermo

\* C4: a composition update modifies only the cached mole fractions and the
\* flags m_l0000_ok and m_lmatrix_soln_ok, and at constant temperature the
\* species viscosities, once computed, keep their values across composition
\* changes and queries.
C4_CompositionLeavesTemperatureTier ==
    /\ []C4_CompositionUpdateFrame
    /\ [][mt.m_spvisc_ok => (mt'.m_visc = mt.m_visc /\ mt'.m_spvisc_ok)]_vars

\* C4 happens: a solve had succeeded, the composition changed, and a viscosity
\* query ran the composition update with every temperature flag set
C4_Witness ==
    /\ ret.op = "viscosity"
    /\ ghost.runs["_update_transport_C"] = 1
    /\ mt.m_spvisc_ok /\ mt.m_visc_ok /\ mt.m_diff_ok /\ mt.m_abc_ok
    /\ mt.m_a.form = "LU" /\ ~mt.m_lmatrix_soln_ok
    /\ mt.m_visc = RecomputedAtT.m_visc

\* the routine that computes a quantity, and the routines a routine calls for
Owner(q) ==
    CASE q \in TempGroup -> "_update_transport_T"
      [] q = "m_visc" -> "_update_species_visc_T"
      [] q = "m_phi" -> "_update_visc_T"
      [] q = "m_bdiff" -> "_update_diff_T"
      [] q \in ThermalGroup -> "_update_thermal_T"

Prerequisites(r) ==
    CASE r = "_update_species_visc_T" -> {"_update_transport_T"}
      [] r = "_update_visc_T" -> {"_update_species_visc_T"}
      [] r = "_update_diff_T" -> {"_update_transport_T"}
      [] r = "_update_thermal_T" -> {"_update_species_visc_T", "_update_diff_T"}
      [] OTHER -> {}

WithPrerequisites(rs) == rs \cup UNION {Prerequisites(r) : r \in rs}

\* the routines a query needs
Needs(op, args) ==
    WithPrerequisites(WithPrerequisites({Owner(q) : q \in ReadsT(op, args)}))

\* C5: between two temperature changes each temperature-tier routine runs at
\* most once
C5_AtMostOnce == \A r \in TRoutines : ghost.runs[r] <= 1

\* C5: between two consecutive temperature changes each temperature-tier
\* routine runs at most once, whatever the queries, and it runs only in a
\* query that needs it.
C5_RoutinesRunOnceWhenNeeded ==
    /\ []C5_AtMostOnce
    /\ [][\A r \in TRoutines :
            ghost'.runs[r] > ghost.runs[r] => r \in Needs(ret'.op, ret'.args)]_vars

\* C5 happens: the second of two consecutive thermalConductivity() calls has
\* returned and the routines have run once
C5_Witness ==
    /\ ret.op = "thermalConductivity" /\ ret.prevTC.set
    /\ \A r \in TRoutines \ {"_update_visc_T"} : ghost.runs[r] = 1

\* C6: after a composition update each cached mole fraction is the floor
\* where the phase's is below the floor and the phase's value otherwise; the
\* vector is not renormalized.
C6_MoleFractionsClamped ==
    ghost.runs["_update_transport_C"] >= 1 =>
        \A k \in Species :
            IF thermo.moleFractions[k] < MIN_X
            THEN mt.m_molefracs[k] = MIN_X
            ELSE mt.m_molefracs[k] = thermo.moleFractions[k]

\* C6 happens: an entry was raised to the floor and the cached vector sums to
\* more than one
C6_Witness ==
    /\ ghost.runs["_update_transport_C"] >= 1
    /\ \E k \in Species : thermo.moleFractions[k] < MIN_X /\ mt.m_molefracs[k] = MIN_X
    /\ RSum([k \in Species |-> RInt(mt.m_molefracs[k])], Species) = RInt(XOne + MIN_X)

\* C7: the matrix getBinaryDiffCoeffs writes is symmetric and each entry is
\* m_bdiff(i,j) divided by the pressure.
C7_BinaryDiffSymmetric ==
    ret.op = "getBinaryDiffCoeffs" =>
        \A i, j \in Species :
            /\ ret.out[ret.args[1] * j + i] = ret.out[ret.args[1] * i + j]
            /\ ret.out[ret.args[1] * j + i] = RDiv(mt.m_bdiff[i, j], pressure_ig(thermo))

\* C7 happens: getBinaryDiffCoeffs has written nonzero coefficients after
\* _update_thermal_T had replaced the diagonal
C7_Witness ==
    /\ ret.op = "getBinaryDiffCoeffs"
    /\ thermo.up_T["thermal_T"]
    /\ \A i, j \in Species : ~RIsZero(ret.out[ret.args[1] * j + i])
    /\ \E i \in Species : mt.m_bdiff[i, i] # FitsAtT[i, i]

\* C8: two getBinaryDiffCoeffs calls at the same temperature and pressure
\* return the same matrix, diagonal included, whatever queries come between.
C8_BinaryDiffRepeatable ==
    (/\ ret.op = "getBinaryDiffCoeffs"
     /\ ret.prevBD.set
     /\ ret.prevBD.temperature = thermo.temperature
     /\ ret.prevBD.pressure = pressure_ig(thermo)) =>
        \A i, j \in Species : ret.out[ret.args[1] * j + i] = ret.prevBD.d[i, j]

\* the sum over the species of weight[k] * (flux of species k in direction n),
\* the flux taken before the thermal-diffusion term is subtracted
WeightedFluxSum(weight, n) ==
    RSum([k \in Species |-> RMul(weight[k], ret.out[k + n * ret.args.ldf].v)], Species)

\* C9: in every direction the returned fluxes satisfy
\* sum_k Y_k * fluxes[k + n*ldf] = 0, Y_k the mass fractions (stated for the
\* calls with a zero temperature gradient, whose fluxes are plain numbers).
C9_MassWeightedFluxesSumToZero ==
    (ret.op = "getSpeciesFluxes" /\ ret.status = "ok" /\ ~HasGradT(ret.args)) =>
        \A n \in 0 .. (ret.args.ndim - 1) :
            RIsZero(WeightedFluxSum(massFractions(thermo), n))

\* C9, amended: in every direction the fluxes of a successful call, before
\* the thermal-diffusion term is subtracted, sum to zero over the species;
\* with a zero temperature gradient these are the returned fluxes.
C9_FluxesSumToZero ==
    (ret.op = "getSpeciesFluxes" /\ ret.status = "ok") =>
        \A n \in 0 .. (ret.args.ndim - 1) :
            RIsZero(WeightedFluxSum([k \in Species |-> RInt(1)], n))

\* C9 happens: a successful call in MaxDim directions with a zero temperature
\* gradient has returned a nonzero flux
C9_Witness ==
    /\ ret.op = "getSpeciesFluxes" /\ ret.status = "ok" /\ ~HasGradT(ret.args)
    /\ ret.args.ndim = MaxDim
    /\ \E k \in Species : ~RIsZero(ret.out[k].v)

\* C10: in direct mode a factorization that reports failure ends the query
\* with a CanteraError and is not tried again: the L-matrix solve behind
\* thermalConductivity and getThermalDiffCoeffs, and the factorization and
\* the back-substitution of getSpeciesFluxes.
C10_FactorizationFailureThrows ==
    /\ (/\ ret.op \in {"thermalConductivity", "getThermalDiffCoeffs"}
        /\ ~mt.m_gmres /\ ret.ext.info # 0) =>
            /\ ret.status = "CanteraError"
            /\ ret.proc = "MultiTransport::solveLMatrixEquation"
            /\ ghost.solves = 1
    /\ (ret.op = "getSpeciesFluxes" /\ ~mt.m_gmres) =>
        LET solveFailed == HasGradT(ret.args) /\ ret.ext.info # 0
            A == FluxSystem(mt, massFractions(thermo), JMax(ret.args.grad_X))
        IN  /\ solveFailed =>
                /\ ret.status = "CanteraError"
                /\ ret.proc = "MultiTransport::solveLMatrixEquation"
                /\ ghost.solves = 1 /\ ghost.factorizations = 0
            /\ (~solveFailed /\ (DgetrfInfo(A) # 0 \/ ret.ext.info2 # 0)) =>
                /\ ret.status = "CanteraError"
                /\ ret.proc = "MultiTransport::getSpeciesFluxes"
                /\ ghost.factorizations = 1

\* C10 happens: the back-substitution of getSpeciesFluxes reported failure on
\* a matrix that had been factorized, after the L-matrix solve had succeeded
C10_Witness ==
    /\ ret.op = "getSpeciesFluxes" /\ HasGradT(ret.args)
    /\ ret.ext.info2 # 0
    /\ DgetrfInfo(FluxSystem(mt, massFractions(thermo), JMax(ret.args.grad_X))) = 0
    /\ ret.status = "CanteraError"
    /\ ghost.thrown.msg = "Error in DGETRS"

\* C11: when getSpeciesFluxes fails with a factorization or back-substitution
\* error, the caller's fluxes array is left exactly as it was before the call.
C11_FluxesUntouchedOnFailure ==
    (/\ ret.op = "getSpeciesFluxes"
     /\ ret.status = "CanteraError"
     /\ ret.proc = "MultiTransport::getSpeciesFluxes") =>
        ret.out = FreshFluxes(ret.args.ldf * ret.args.ndim)

\* C12: when the inversion in getMultiDiffCoeffs fails, the failure is
\* propagated to the immediate caller as an error: control returns to the
\* caller and the process is not terminated.
C12_InvertFailurePropagates ==
    (ret.op = "getMultiDiffCoeffs" /\ ret.ext.ierr # 0) =>
        ret.status = "CanteraError" /\ Running

\* C13: in GMRES mode, when the iterative solver exhausts its iteration
\* budget without meeting the tolerance, solveLMatrixEquation reports a
\* failure to its caller, does not set m_lmatrix_soln_ok, and does not fall
\* back to the direct method.
C13_GmresFailureReported ==
    (ret.op = "thermalConductivity" /\ mt.m_gmres /\ ~ret.ext.conv) =>
        /\ ret.status = "CanteraError"
        /\ ~mt.m_lmatrix_soln_ok
        /\ mt.m_a.form = "gmres"

\* C14: StFlow::setTransport raises an error when thermal diffusion is
\* requested with a mixture-averaged transport model, and when the model is
\* neither multicomponent nor mixture-averaged; a multicomponent model is
\* accepted with either Soret setting and a mixture-averaged model without
\* Soret.
C14_SetTransportAccepts ==
    ret.op = "setTransport" =>
        LET model == ret.args[1]
            withSoret == ret.args[2]
        IN  /\ (model = "cMixtureAveraged" /\ withSoret) => ret.status = "CanteraError"
            /\ model \notin {"cMulticomponent", "cMixtureAveraged"} => ret.status = "CanteraError"
            /\ model = "cMulticomponent" =>
                ret.status = "ok" /\ flow.m_transport_option = "c_Multi_Transport"
            /\ (model = "cMixtureAveraged" /\ ~withSoret) =>
                ret.status = "ok" /\ flow.m_transport_option = "c_Mixav_Transport"
            /\ ret.status = "ok" => flow.m_do_soret = withSoret

\* C14 happens: a mixture-averaged manager with Soret was refused, after the
\* transport option had been set for it
C14_Witness ==
    /\ ret.op = "setTransport" /\ ret.args = <<"cMixtureAveraged", TRUE>>
    /\ ret.status = "CanteraError"
    /\ flow.m_transport_option = "c_Mixav_Transport"

\* the flags, each with the flags it presupposes
FlagHierarchy ==
    /\ mt.m_visc_ok => mt.m_spvisc_ok
    /\ mt.m_abc_ok => (mt.m_spvisc_ok /\ mt.m_diff_ok)
    /\ mt.m_lmatrix_soln_ok => mt.m_abc_ok
    /\ mt.m_l0000_ok => mt.m_lmatrix_soln_ok

\* the quantities a flag vouches for and those of its prerequisites
Vouches(flag) ==
    CASE flag = "m_spvisc_ok" -> TempGroup \cup {"m_visc"}
      [] flag = "m_visc_ok" -> TempGroup \cup {"m_visc", "m_phi"}
      [] flag = "m_diff_ok" -> TempGroup \cup {"m_bdiff"}
      [] flag \in {"m_abc_ok", "m_lmatrix_soln_ok", "m_l0000_ok"} ->
            TempGroup \cup ThermalGroup \cup {"m_visc", "m_bdiff"}

Flags == {"m_spvisc_ok", "m_visc_ok", "m_diff_ok", "m_abc_ok", "m_lmatrix_soln_ok",
          "m_l0000_ok"}

\* IsCurrent for every quantity of qs
AreCurrent(qs) ==
    LET fits(recomputed) ==
            \A q \in qs :
                IF q = "m_bdiff" THEN mt.m_bdiff \in {FitsAtT, recomputed.m_bdiff}
                ELSE mt[q] = recomputed[q]
    IN  qs # {} => fits(RecomputedAtT)

\* C15: m_visc_ok implies m_spvisc_ok, m_abc_ok implies m_spvisc_ok and
\* m_diff_ok, m_lmatrix_soln_ok implies m_abc_ok, m_l0000_ok implies
\* m_lmatrix_soln_ok; and a flag that is true once the temperature routine has
\* run for the current temperature stands for quantities, its own and its
\* prerequisites', computed at that temperature.
C15_FlagsFollowPrerequisites ==
    /\ FlagHierarchy
    /\ thermo.up_T["transport_T"] =>
        AreCurrent(UNION {Vouches(flag) : flag \in {g \in Flags : mt[g]}})

\* C15 happens: in GMRES mode every flag is true at the second temperature
C15_Witness ==
    /\ mt.m_gmres /\ thermo.temperature = 16 /\ thermo.up_T["transport_T"]
    /\ \A flag \in Flags : mt[flag]

\* an L-matrix solve has succeeded, and the phase's temperature or clamped
\* composition is no longer the one it was made for
ChangedSinceSolve ==
    /\ mt.m_a.form \in {"LU", "gmres"}
    /\ \/ mt.m_a.temp # thermo.temperature
       \/ \E k \in Species :
            mt.m_a.b[NSP + k] # ClampMoleFractions(thermo.moleFractions)[k]

\* C16: if the temperature or the composition has changed since the last
\* L-matrix solve, m_lmatrix_soln_ok is false when the next query (viscosity,
\* getBinaryDiffCoeffs, getSpeciesFluxes with zero temperature gradient,
\* getMultiDiffCoeffs) returns, unless that query solved the L matrix anew.
C16_SolutionFlagClearedAfterChange ==
    (/\ ret.op \in {"viscosity", "getBinaryDiffCoeffs", "getSpeciesFluxes",
                    "getMultiDiffCoeffs"}
     /\ ghost.solves = 0
     /\ ChangedSinceSolve) =>
        ~mt.m_lmatrix_soln_ok

\* C17: in direct or iterative mode and after any temperature changes,
\* composition changes and queries, the block getMultiDiffCoeffs inverts is
\* L00,00 as evaluated at the current temperature and the current clamped mole
\* fractions: not LU factors, not an inverse, not a block of an older
\* temperature or composition.
C17_InvertsFreshBlock ==
    (ret.op = "getMultiDiffCoeffs" /\ ret.status = "ok") =>
        \A i, j \in Species :
            ret.out[ret.args[1] * j + i].of =
                [form |-> "eval", temp |-> thermo.temperature,
                 x |-> ClampMoleFractions(thermo.moleFractions)]

\* C17 happens: in GMRES mode getMultiDiffCoeffs inverted the block the last
\* solve had left, without evaluating it again, after an earlier temperature
\* was left behind
C17_Witness ==
    /\ ret.op = "getMultiDiffCoeffs" /\ ret.status = "ok"
    /\ mt.m_gmres /\ mt.m_a.form = "gmres" /\ mt.m_lmatrix_soln_ok
    /\ thermo.temperature = 16
    /\ mt.m_Lmatrix.l0000.form = "inverse" /\ mt.m_Lmatrix.rest.form = "eval"

\* C18: m_l0000_ok is true only by a successful GMRES solve; it is false
\* after every successful direct solve and after every getMultiDiffCoeffs
\* call, and with the direct method it is false in every reachable state.
C18_L0000FlagOnlyBySuccessfulGmres ==
    /\ mt.m_l0000_ok => (mt.m_gmres /\ mt.m_a.form = "gmres" /\ mt.m_a.conv)
    /\ (ret.op = "thermalConductivity" /\ ret.status = "ok" /\ ~mt.m_gmres) => ~mt.m_l0000_ok
    /\ (ret.op = "getMultiDiffCoeffs" /\ ret.status = "ok") => ~mt.m_l0000_ok
    /\ ~mt.m_gmres => ~mt.m_l0000_ok

C20_RightHandSideRebuilt ==
    (/\ ret.op \in {"thermalConductivity", "getThermalDiffCoeffs", "getSpeciesFluxes"}
     /\ ghost.solves >= 1) =>
        LET x == ClampMoleFractions(thermo.moleFractions)
        IN  \A k \in Species :
                /\ mt.m_b[k] = 0
                /\ mt.m_b[NSP + k] = x[k]
                /\ mt.m_b[2 * NSP + k] = IF cp_R(thermo, k) # Rat(5, 2) THEN x[k] ELSE 0

\* C20 happens: a solve after a composition change built the right-hand side
\* with a clamped entry, for a species with internal modes and a species
\* without
C20_Witness ==
    /\ ghost.solves >= 1 /\ ghost.runs["_update_transport_C"] = 1
    /\ ret.op = "getThermalDiffCoeffs"
    /\ thermo.moleFractions[1] < MIN_X
    /\ mt.m_b[2 * NSP + 1] = MIN_X
    /\ mt.m_b[NSP] = XOne /\ mt.m_b[2 * NSP] = 0

\* the factor of a[k] in the thermal-diffusion coefficient DT_k that
\* getThermalDiffCoeffs returns: (1.6/R) M_k x_k, x_k the clamped mole
\* fraction of the current composition
ThermalDiffFactor(k) ==
    RMul(Rat(8, 5), RMul(RInt(MolecularWeight(k)),
                         Rat(ClampMoleFractions(thermo.moleFractions)[k], XOne)))

\* C21: with a nonzero temperature gradient getSpeciesFluxes subtracts from
\* flux component (k, n) the quantity M_k * x_k * DT_k * gradT[n] / T, DT_k the
\* coefficient getThermalDiffCoeffs returns.
C21_ThermalTermWeightedTwice ==
    (ret.op = "getSpeciesFluxes" /\ ret.status = "ok" /\ HasGradT(ret.args)) =>
        \A n \in 0 .. (ret.args.ndim - 1), k \in Species :
            ret.out[k + n * ret.args.ldf].dt =
                RMul(RMul(RInt(MolecularWeight(k)),
                          Rat(ClampMoleFractions(thermo.moleFractions)[k], XOne)),
                     RMul(ThermalDiffFactor(k), Rat(ret.args.grad_T[n], thermo.temperature)))

\* C21, amended: the quantity subtracted is DT_k * gradT[n] / T, the
\* coefficient as getThermalDiffCoeffs returns it and nothing more.
C21_ThermalTermIsCoefficientTimesGradLogT ==
    (ret.op = "getSpeciesFluxes" /\ ret.status = "ok" /\ HasGradT(ret.args)) =>
        \A n \in 0 .. (ret.args.ndim - 1), k \in Species :
            ret.out[k + n * ret.args.ldf].dt =
                RMul(ThermalDiffFactor(k), Rat(ret.args.grad_T[n], thermo.temperature))

\* C21 happens: fluxes in MaxDim directions with a temperature gradient, for
\* a composition with a clamped mole fraction
C21_Witness ==
    /\ ret.op = "getSpeciesFluxes" /\ ret.status = "ok" /\ HasGradT(ret.args)
    /\ ret.args.ndim = MaxDim
    /\ \E k \in Species : thermo.moleFractions[k] < MIN_X
    /\ \A k \in Species : ~RIsZero(ret.out[k + (MaxDim - 1) * ret.args.ldf].dt)

\* the solve-tier members
SolveTier == {"m_a", "m_b", "m_Lmatrix", "m_lmatrix_soln_ok", "m_l0000_ok"}

GradientWithoutJmax(n) ==
    [k \in Species |->
        IF k = JMax(ret.args.grad_X) THEN RZero
        ELSE RInt(ret.args.grad_X[k + n * ret.args.ldx])]

\* C23: row jmax of A is replaced by the mass-fraction vector, and in the
\* right-hand side of every direction n < ndim the entry jmax is zero while
\* every other entry k is grad_X[k + n*ldx]: the system that is factorized has
\* that row, a call that fails leaves those right-hand sides in fluxes, and a
\* call that succeeds returns the solution of that system, scaled.
C23_ConstraintRowAndRightHandSide ==
    (ret.op = "getSpeciesFluxes" /\ ret.proc # "MultiTransport::solveLMatrixEquation") =>
        LET jmax == JMax(ret.args.grad_X)
            y == massFractions(thermo)
            A == FluxSystem(mt, y, jmax)
            scaled(v, k) == RMul(v[k], RDiv(RMul(density(thermo), y[k]), pressure_ig(thermo)))
        IN  /\ \A j \in Species : A[jmax, j] = y[j]
            /\ \A i \in Species \ {jmax}, j \in Species : A[i, j] = FluxMatrix(mt)[i, j]
            /\ ret.status = "CanteraError" =>
                \A n \in 0 .. (ret.args.ndim - 1), k \in Species :
                    ret.out[k + n * ret.args.ldf].v = GradientWithoutJmax(n)[k]
            /\ ret.status = "ok" =>
                \A n \in 0 .. (ret.args.ndim - 1), k \in Species :
                    ret.out[k + n * ret.args.ldf].v =
                        scaled(LinearSolve(A, GradientWithoutJmax(n)), k)

\* C23 happens: in MaxDim directions the second row was replaced; the
\* nonzero gradient of the replaced species is missing from the right-hand
\* side the failed call left in fluxes, the gradient of the other species in
\* the last direction is there
C23_Witness ==
    /\ ret.op = "getSpeciesFluxes" /\ ret.status = "CanteraError"
    /\ ret.proc = "MultiTransport::getSpeciesFluxes"
    /\ ret.args.ndim = MaxDim
    /\ JMax(ret.args.grad_X) = 1
    /\ ret.args.grad_X[1] # 0 /\ RIsZero(ret.out[1].v)
    /\ ret.args.grad_X[(MaxDim - 1) * ret.args.ldx] # 0
    /\ ret.out[(MaxDim - 1) * ret.args.ldf].v =
            RInt(ret.args.grad_X[(MaxDim - 1) * ret.args.ldx])

\* C24: jmax is the lowest species index attaining the maximum of |grad_X[j]|,
\* j < N, in the first spatial direction; the gradients of the other
\* directions never influence it, and jmax = 0 when the first-direction
\* gradients are all zero.
C24_JMaxIsFirstMaximumOfFirstDirection ==
    ret.op = "getSpeciesFluxes" =>
        LET g == ret.args.grad_X
            jmax == JMax(g)
        IN  /\ \A k \in Species : Abs(g[k]) <= Abs(g[jmax])
            /\ \A k \in Species : k < jmax => Abs(g[k]) < Abs(g[jmax])
            /\ (\A k \in Species : g[k] = 0) => jmax = 0
            /\ \A pat \in GradPatterns :
                JMax([n \in DOMAIN g |->
                        IF n < NSP THEN g[n] ELSE GradX(pat, NSP * ret.args.ndim)[n]]) = jmax
            /\ ret.proc = "MultiTransport::getSpeciesFluxes" =>
                \A n \in 0 .. (ret.args.ndim - 1) :
                    RIsZero(ret.out[jmax + n * ret.args.ldf].v)

\* C24 happens: in MaxDim directions the two first-direction gradients tie in
\* magnitude, the first species was chosen, and the failed call left zero in
\* its place
C24_Witness ==
    /\ ret.op = "getSpeciesFluxes" /\ ret.args.ndim = MaxDim
    /\ Abs(ret.args.grad_X[0]) = 1 /\ Abs(ret.args.grad_X[1]) = 1
    /\ JMax(ret.args.grad_X) = 0
    /\ ret.proc = "MultiTransport::getSpeciesFluxes" /\ RIsZero(ret.out[0].v)

\* the cached binary diffusion matrix with d on its diagonal
WithDiagonal(m, d) ==
    [m EXCEPT !.m_bdiff = Stored([i \in Species, j \in Species |->
                              IF i = j THEN d ELSE m.m_bdiff[i, j]])]

\* nonzero values the diagonal of m_bdiff is tried with: the two the code
\* stores there for the first species (by _update_diff_T and, once the
\* species viscosities are known, by _update_thermal_T) and two others
DiagonalValues ==
    {d \in {FitsAtT[0, 0], SelfDiffusion(mt, 0), RInt(1), Rat(7, 3)} : ~RIsZero(d)}

\* C25: the matrix A getSpeciesFluxes assembles, before its constraint row is
\* substituted, has A(i,j) = x_i x_j / D_ij off the diagonal and
\* A(i,i) = -(sum over j # i of A(i,j)), so every row sums to zero, and A is
\* the same whatever nonzero value m_bdiff holds on its diagonal.
C25_FluxMatrixRowsSumToZero ==
    (ret.op = "getSpeciesFluxes" /\ ret.proc # "MultiTransport::solveLMatrixEquation") =>
        LET A == FluxMatrix(mt)
        IN  /\ \A i, j \in Species :
                  i # j => A[i, j] = RDiv(RMul(MoleFrac(mt, i), MoleFrac(mt, j)), mt.m_bdiff[i, j])
            /\ \A i \in Species :
                  /\ A[i, i] = RNeg(RSum([j \in Species |-> IF j = i THEN RZero ELSE A[i, j]],
                                         Species))
                  /\ RIsZero(RSum([j \in Species |-> A[i, j]], Species))
            /\ \A d \in DiagonalValues : FluxMatrix(WithDiagonal(mt, d)) = A

\* C25 happens: getSpeciesFluxes has assembled its matrix from a diagonal of
\* m_bdiff that _update_thermal_T had replaced, and the matrix has a nonzero
\* diagonal
C25_Witness ==
    /\ ret.op = "getSpeciesFluxes" /\ ret.status = "ok"
    /\ \E i \in Species : mt.m_bdiff[i, i] # FitsAtT[i, i]
    /\ \A i \in Species : ~RIsZero(FluxMatrix(mt)[i, i])
    /\ {FitsAtT[0, 0], SelfDiffusion(mt, 0)} \subseteq DiagonalValues
    /\ FitsAtT[0, 0] # SelfDiffusion(mt, 0)


\* the diffusion velocities of direction n: the solution of the substituted
\* system with the right-hand side of that direction
DiffusionVelocities(n) ==
    LET jmax == JMax(ret.args.grad_X)
    IN  LinearSolve(FluxSystem(mt, massFractions(thermo), jmax),
                    [k \in Species |->
                        IF k = jmax THEN RZero
                        ELSE RInt(ret.args.grad_X[k + n * ret.args.ldx])])

\* C26: with every component of grad_T zero, the fluxes a successful
\* getSpeciesFluxes returns carry no thermal term and sum to zero over the
\* species in every direction: each is rho Y_k v_k / p, and the velocities v
\* satisfy sum_j Y_j v_j = 0.
C26_ZeroGradTFluxesSumToZero ==
    (ret.op = "getSpeciesFluxes" /\ ret.status = "ok" /\ ~HasGradT(ret.args)) =>
        \A n \in 0 .. (ret.args.ndim - 1) :
            LET v == DiffusionVelocities(n)
                y == massFractions(thermo)
                flux == [k \in Species |-> ret.out[k + n * ret.args.ldf]]
            IN  /\ \A k \in Species :
                      /\ RIsZero(flux[k].dt)
                      /\ flux[k].v = RMul(v[k], RDiv(RMul(density(thermo), y[k]),
                                                     pressure_ig(thermo)))
                /\ RIsZero(RSum([k \in Species |-> RMul(y[k], v[k])], Species))
                /\ RIsZero(RSum([k \in Species |-> flux[k].v], Species))

\* C26 happens: a successful call with a zero temperature gradient has
\* returned, in the last of MaxDim directions, two nonzero fluxes of species
\* with different mass fractions
C26_Witness ==
    /\ ret.op = "getSpeciesFluxes" /\ ret.status = "ok" /\ ~HasGradT(ret.args)
    /\ ret.args.ndim = MaxDim
    /\ \A k \in Species : ~RIsZero(ret.out[k + (MaxDim - 1) * ret.args.ldf].v)
    /\ massFractions(thermo)[0] # massFractions(thermo)[1]


\* inverses the entries of getMultiDiffCoeffs are evaluated with
SampleInverses == [Species \X Species -> {RInt(-1), Rat(1, 2), RInt(3)}]

\* C27: every diagonal entry getMultiDiffCoeffs writes is zero, and the entry
\* (i,j), at out[ld*j + i], is
\* 16 T Wmean / (25 p M_j) * x_i * (Linv(i,j) - Linv(i,i)), x the clamped mole
\* fractions and Linv the inverse of the top-left block.
C27_MultiDiffEntries ==
    (ret.op = "getMultiDiffCoeffs" /\ ret.status = "ok") =>
        LET ld == ret.args[1]
            c(j) == RDiv(RMul(RInt(16 * thermo.temperature), meanMolecularWeight(thermo)),
                         RMul(RInt(25 * MolecularWeight(j)), pressure_ig(thermo)))
            x(i) == Rat(ClampMoleFractions(thermo.moleFractions)[i], XOne)
        IN  \A Linv \in SampleInverses :
                \A i, j \in Species :
                    /\ [ret.out[ld * j + i].of EXCEPT !.form = "inverse"] = mt.m_Lmatrix.l0000
                    /\ RIsZero(MultiDiffValue(ret.out[ld * i + i], Linv))
                    /\ MultiDiffValue(ret.out[ld * j + i], Linv) =
                          RMul(RMul(c(j), x(i)), RSub(Linv[i, j], Linv[i, i]))

\* C27 happens: getMultiDiffCoeffs has written a nonzero coefficient in front
\* of every entry, the diagonal ones included, at the higher temperature
C27_Witness ==
    /\ ret.op = "getMultiDiffCoeffs" /\ ret.status = "ok"
    /\ thermo.temperature = 16
    /\ \A i, j \in Species : ~RIsZero(ret.out[ret.args[1] * j + i].coef)
    /\ \E Linv \in SampleInverses :
          ~RIsZero(MultiDiffValue(ret.out[ret.args[1] * 1 + 0], Linv))


\* C28: every index getSpeciesFluxes writes in its scratch copy grx of the
\* gradients lies inside the allocated length ldx * N, for every ndim >= 1
\* and ldx >= N.
C28_GrxWritesInBounds ==
    ret.op = "getSpeciesFluxes" =>
        \A n \in GrxWrites(ret.args.ndim, ret.args.ldx) : n < GrxLength(ret.args.ldx)


\* C29: after a successful importSolution, at every grid point, a species of
\* the new mechanism with no namesake in the old one has mass fraction zero,
\* whatever the array held before; a species of both carries the old value,
\* normalized; u, V, T, lambda are the old ones.
C29_ImportZeroesNewSpecies ==
    (ret.op = "importSolution" /\ ret.status = "ok") =>
        LET a == ret.args
            nv_old == nSpecies(a.oldmech) + 4
            nv_new == nSpecies(a.newmech) + 4
        IN  \A j \in 0 .. (a.points - 1) :
                /\ \A n \in 0 .. 3 : ret.out[nv_new * j + n] = a.oldSoln[nv_old * j + n]
                /\ \A knew \in 0 .. (nSpecies(a.newmech) - 1) :
                      speciesIndex(a.oldmech, speciesName(a.newmech, knew)) < 0 =>
                          RIsZero(ret.out[nv_new * j + 4 + knew])
                /\ LET shared == {k \in 0 .. (nSpecies(a.oldmech) - 1) :
                                     speciesIndex(a.newmech, speciesName(a.oldmech, k)) >= 0}
                       norm == RSum([k \in shared |-> a.oldSoln[nv_old * j + 4 + k]], shared)
                   IN  \A k \in shared :
                           ~RIsZero(norm) =>
                               ret.out[nv_new * j + 4
                                       + speciesIndex(a.newmech, speciesName(a.oldmech, k))]
                                   = RDiv(a.oldSoln[nv_old * j + 4 + k], norm)


\* C30: under every interleaving of the threads, the factory() calls made
\* with no delete between them construct one instance and all return it, the
\* static pointer; no destroyed instance is returned; when deleteFactory
\* returns the static pointer is null, and the instance constructed after a
\* delete is a new one.
C30_OneFactoryInstance ==
    /\ Cardinality(stf.live) <= 1
    /\ \A t \in Threads :
          /\ stf.result[t] # 0 =>
                /\ stf.result[t] = stf.s_factory
                /\ stf.live = {stf.s_factory}
                /\ stf.result[t] \notin stf.freed
          /\ stf.pc[t] = "deleteFactory:return" => stf.s_factory = 0
    /\ \A i \in stf.live : i \notin stf.freed

\* C30 happens: after MaxInstances - 1 instances were destroyed, both threads
\* hold the pointer concurrent factory() calls returned
C30_Witness ==
    /\ \A t \in Threads : stf.result[t] # 0 /\ stf.pc[t] = "idle"
    /\ Cardinality(stf.freed) = MaxInstances - 1
    /\ stf.made = MaxInstances

====
